---- MODULE Spec2Model ----
(***************************************************************************)
(* Intrusive Red-Black tree of ygg (src/src/rbtree.cpp), followed by its   *)
(* Energy tree (src/src/energy.cpp), which has a section of its own, and   *)
(* the IntervalTree built on the Red-Black tree (src/src/intervaltree.hpp). *)
(*                                                                         *)
(* Nodes are caller-owned objects 1..NumNodes; NIL stands for nullptr.     *)
(* The tree state is the root pointer and the intrusive fields of every    *)
(* node (_rbt_left, _rbt_right, _rbt_parent, _rbt_color, _rbt_prev,        *)
(* _rbt_next).  remove() itself nulls nothing; the caller of the Remove    *)
(* action then destroys the node object and constructs it afresh at the    *)
(* same address (node lifecycle: unlinked -> free for reuse).  In the runs *)
(* with node reuse (SpecReuse) the caller keeps the removed node as it is, *)
(* may write a new key into it, and passes it to insert() again.           *)
(***************************************************************************)
EXTENDS Integers, Sequences, FiniteSets, TLC

\* number of node objects the caller owns
NumNodes == 10

\* number of node objects used in a run whose keys are not all distinct
NumDupNodes == 6

\* number of hinted inserts the caller makes in one run
MaxHinted == 2

\* number of node objects used in a run with queries and a held iterator
NumIterNodes == 6

\* number of node objects used in a run that reuses removed nodes
NumReuseNodes == 3

\* the largest count an iterator is advanced by
MaxAdvance == 3

\* the number of bits of a size_t of the model; the build's has 64
SizeBits == 4

\* number of node objects the caller of the Energy tree owns
NumEtNodes == 7

\* number of those the caller uses in a run that inserts in any order
NumEtFreeNodes == 4

\* largest value of a size or energy field in a run
MaxCount == 8

\* number of node objects used in a run on an IntervalTree
NumItvNodes == 6

\* largest endpoint of an interval stored in a node
MaxEnd == 6

NIL == 0
Nodes == 1..NumNodes

RED == "RED"
BLACK == "BLACK"

\* Two assignments of keys to the caller's nodes: all keys distinct, or
\* node 1 with key 1, nodes 2..4 sharing key 2 (a run of three equal keys)
\* and the later nodes with the distinct keys 3, 4, 5, ...
DistinctKeys == [n \in Nodes |-> n]
DupKeys == [n \in Nodes |-> IF n = 1 THEN 1 ELSE IF n <= 4 THEN 2 ELSE n - 2]

\* A third assignment for the runs with queries: node 1 with key 1, nodes 2
\* and 3 sharing key 2, the later nodes with the distinct keys 3, 4, ...
IterKeys == [n \in Nodes |-> IF n = 1 THEN 1 ELSE IF n <= 3 THEN 2 ELSE n - 1]

\* A fourth assignment for the runs that reuse removed nodes: distinct keys
\* at first; the caller's other node objects carry no key
ReuseKeys == [n \in Nodes |-> IF n <= NumReuseNodes THEN n ELSE 0]

\* A fifth assignment for the runs on an IntervalTree.  The user data of a
\* node is the interval [lower, upper); IntervalCompare orders the pairs, so
\* the key is the pair written as one number.  Node 1 spans all the others,
\* nodes 3 and 4 hold the same interval.
EndStride == MaxEnd + 2
ItvLower(n) == IF n <= 3 THEN n ELSE n - 1
ItvUpper(n) == IF n = 1 THEN MaxEnd ELSE IF n \in {3, 4} THEN 5 ELSE ItvLower(n) + 1
IntervalKeys ==
  [n \in Nodes |-> IF n <= NumItvNodes THEN ItvLower(n) * EndStride + ItvUpper(n)
                                       ELSE 0]

VARIABLES
  key,       \* the user data of every node that Compare looks at
  root,      \* RBTree::root
  left,      \* _rbt_left of every node
  right,     \* _rbt_right
  parent,    \* _rbt_parent
  color,     \* _rbt_color
  prev,      \* _rbt_prev (equality chain; only meaningful with MULTIPLE)
  next,      \* _rbt_next
  max_upper, \* _it_max_upper (IntervalTree only)
  multiple,  \* the compile-time option Node::_rbt_multiple
  lastOp,    \* the call that produced this state (op), the black-height bh
             \* the tree had before it, whether the node passed had both a
             \* predecessor and a successor in its equality chain (mid), and
             \* the query key passed (arg, 0 if the call takes none)
  inserted,  \* the caller's books: nodes passed to insert and not yet to remove
  hinted,    \* how many hinted inserts the caller has made so far
  eqOrder,   \* the caller's books: the linked nodes whose key another node of
             \* the run shares, in the order of their insertion
  reusable,  \* the nodes that were removed and are kept as remove() left them
  et,        \* the Energy tree and the Energy-tree fields of its nodes
  it         \* an iterator the caller holds: the node it refers to (NIL is
             \* end()) and whether an insert or remove was made since the
             \* caller obtained it (aged)

vars == <<key, root, left, right, parent, color, prev, next, max_upper, multiple, lastOp,
          inserted, hinted, eqOrder, reusable, et, it>>

\* Compare()(a, b): the user's strict weak ordering on nodes
Cmp(a, b) == key[a] < key[b]

\* equality as deduced from the comparator
Equal(a, b) == ~Cmp(a, b) /\ ~Cmp(b, a)

\* the node objects the caller uses in this run
Pool ==
  IF key = DistinctKeys THEN Nodes
  ELSE IF key = DupKeys THEN 1..NumDupNodes
  ELSE IF key = IterKeys THEN 1..NumIterNodes
  ELSE IF key = IntervalKeys THEN 1..NumItvNodes
  ELSE 1..NumReuseNodes

\* the tree and node fields as one value, threaded through the operations
Tree == [root |-> root, left |-> left, right |-> right, parent |-> parent,
         color |-> color, prev |-> prev, next |-> next, max_upper |-> max_upper]

\* a local variable of a source function: v is computed once and bound to
\* the parameter of K, the rest of the function body
Bind(v, K(_)) == K(v)

\* if (child != nullptr) child->_rbt_parent = p
set_parent_if_present(t, child, p) ==
  IF child # NIL THEN [t EXCEPT !.parent[child] = p] ELSE t

(***************************************************************************)
(* NodeTraits hooks.  An RBTree has the default traits, whose hooks do     *)
(* nothing; an IntervalTree has ExtendedNodeTraits, whose hooks keep       *)
(* _it_max_upper.                                                          *)
(***************************************************************************)
\* the tree is an IntervalTree
extended == key = IntervalKeys

\* NodeTraits::get_lower, NodeTraits::get_upper
get_lower(n) == key[n] \div EndStride
get_upper(n) == key[n] % EndStride

Max(a, b) == IF a >= b THEN a ELSE b

\* max(upper(n), max_upper(left), max_upper(right)), ignoring null children
max_upper_of(t, n) ==
  Max(get_upper(n),
      Max(IF t.left[n] # NIL THEN t.max_upper[t.left[n]] ELSE 0,
          IF t.right[n] # NIL THEN t.max_upper[t.right[n]] ELSE 0))

\* the walk of leaf_inserted from cur upward
RECURSIVE leaf_inserted_walk(_, _, _, _)
leaf_inserted_walk(t, n, cur, fuel) ==
  IF fuel = 0 \/ t.parent[cur] = NIL THEN t
  ELSE IF get_upper(n) > t.max_upper[t.parent[cur]]
    THEN leaf_inserted_walk([t EXCEPT !.max_upper[t.parent[cur]] = get_upper(n)],
                            n, t.parent[cur], fuel - 1)
  ELSE t

\* ExtendedNodeTraits::leaf_inserted.  The leaf's own field is the maximum
\* over a subtree of one node, its own upper endpoint; the walk carries it
\* upward.
leaf_inserted(t, n) ==
  IF ~extended THEN t
  ELSE leaf_inserted_walk([t EXCEPT !.max_upper[n] = get_upper(n)], n, n, NumNodes)

\* the walk upward that recomputes ancestors until one is unchanged
RECURSIVE recompute_upward(_, _, _)
recompute_upward(t, cur, fuel) ==
  IF fuel = 0 \/ cur = NIL THEN t
  ELSE IF max_upper_of(t, cur) = t.max_upper[cur] THEN t
  ELSE recompute_upward([t EXCEPT !.max_upper[cur] = max_upper_of(t, cur)],
                        t.parent[cur], fuel - 1)

\* n is recomputed from scratch, then its ancestors until one is unchanged
recompute_from(t, n) ==
  recompute_upward([t EXCEPT !.max_upper[n] = max_upper_of(t, n)],
                   t.parent[n], NumNodes)

\* ExtendedNodeTraits::rotated_left; n is the node that went down, its
\* parent is the node that came up
rotated_left(t, n) ==
  IF ~extended THEN t
  ELSE Bind([t EXCEPT !.max_upper[n] = max_upper_of(t, n)], LAMBDA t1:
       [t1 EXCEPT !.max_upper[t1.parent[n]] = max_upper_of(t1, t1.parent[n])])

\* ExtendedNodeTraits::rotated_right
rotated_right(t, n) ==
  IF ~extended THEN t
  ELSE Bind([t EXCEPT !.max_upper[n] = max_upper_of(t, n)], LAMBDA t1:
       [t1 EXCEPT !.max_upper[t1.parent[n]] = max_upper_of(t1, t1.parent[n])])

\* ExtendedNodeTraits::deleted_below
deleted_below(t, n) ==
  IF ~extended THEN t ELSE recompute_from(t, n)

\* ExtendedNodeTraits::swapped
swapped(t, n1, n2) ==
  IF ~extended THEN t ELSE recompute_from(recompute_from(t, n1), n2)

\* the link to node `old` in parent pp (or the root link if pp is null) is
\* made to refer to `new`; `old` is found by comparing with the left link
replace_in_parent_by_left(t, pp, old, new) ==
  IF pp # NIL
    THEN IF t.left[pp] = old
           THEN [t EXCEPT !.left[pp] = new]
           ELSE [t EXCEPT !.right[pp] = new]
    ELSE [t EXCEPT !.root = new]

\* the same, with `old` found by comparing with the right link
replace_in_parent_by_right(t, pp, old, new) ==
  IF pp # NIL
    THEN IF t.right[pp] = old
           THEN [t EXCEPT !.right[pp] = new]
           ELSE [t EXCEPT !.left[pp] = new]
    ELSE [t EXCEPT !.root = new]

(***************************************************************************)
(* Equality chain (EqualityListHelper).  With MULTIPLE unset every         *)
(* operation is the empty specialisation.                                  *)
(***************************************************************************)
\* if (n != nullptr) n->_rbt_prev = v
set_prev_if_present(t, n, v) ==
  IF n # NIL THEN [t EXCEPT !.prev[n] = v] ELSE t

\* if (n != nullptr) n->_rbt_next = v
set_next_if_present(t, n, v) ==
  IF n # NIL THEN [t EXCEPT !.next[n] = v] ELSE t

equality_list_insert_before(t, node, predecessor) ==
  IF ~multiple THEN t
  ELSE IF predecessor = NIL
    THEN [t EXCEPT !.next[node] = NIL, !.prev[node] = NIL]
    ELSE
      Bind([t EXCEPT !.next[node] = t.next[predecessor],
                     !.prev[node] = predecessor], LAMBDA t1:
      Bind(set_prev_if_present(t1, t1.next[predecessor], node), LAMBDA t2:
      [t2 EXCEPT !.next[predecessor] = node]))

equality_list_insert_after(t, node, successor) ==
  IF ~multiple THEN t
  ELSE IF successor = NIL
    THEN [t EXCEPT !.next[node] = NIL, !.prev[node] = NIL]
    ELSE
      Bind([t EXCEPT !.prev[node] = t.prev[successor],
                     !.next[node] = successor], LAMBDA t1:
      Bind(set_next_if_present(t1, t1.prev[successor], node), LAMBDA t2:
      [t2 EXCEPT !.prev[successor] = node]))

\* variant: only the successor's link is repaired
equality_list_delete_node_one_sided(t, node) ==
  IF ~multiple THEN t
  ELSE set_prev_if_present(t, t.next[node], t.prev[node])

equality_list_delete_node(t, node) ==
  IF ~multiple THEN t
  ELSE
    Bind(set_prev_if_present(t, t.next[node], t.prev[node]), LAMBDA t1:
    set_next_if_present(t1, t1.prev[node], t1.next[node]))

\* the while loop of equality_list_find_first; fuel bounds a cyclic chain
RECURSIVE find_first_walk(_, _, _)
find_first_walk(t, res, fuel) ==
  IF fuel = 0 \/ t.prev[res] = NIL THEN res
  ELSE find_first_walk(t, t.prev[res], fuel - 1)

equality_list_find_first(t, node) ==
  IF ~multiple THEN node ELSE find_first_walk(t, node, NumNodes)

equality_list_swap_if_necessary(t, n1, n2) ==
  IF ~multiple THEN t
  ELSE IF Cmp(n1, n2) \/ Cmp(n2, n1) THEN t
  ELSE IF t.next[n1] = n2 THEN
    Bind([t EXCEPT !.next[n1] = t.next[n2], !.prev[n2] = t.prev[n1]], LAMBDA t1:
    Bind([t1 EXCEPT !.prev[n1] = n2, !.next[n2] = n1], LAMBDA t2:
    Bind(set_prev_if_present(t2, t2.next[n1], n1), LAMBDA t3:
    set_next_if_present(t3, t3.prev[n2], n2))))
  ELSE IF t.next[n2] = n1 THEN
    Bind([t EXCEPT !.next[n2] = t.next[n1], !.prev[n1] = t.prev[n2]], LAMBDA t1:
    Bind([t1 EXCEPT !.prev[n2] = n1, !.next[n1] = n2], LAMBDA t2:
    Bind(set_prev_if_present(t2, t2.next[n2], n2), LAMBDA t3:
    set_next_if_present(t3, t3.prev[n1], n1))))
  ELSE
    Bind([t EXCEPT !.prev[n2] = t.prev[n1], !.prev[n1] = t.prev[n2],
                   !.next[n2] = t.next[n1], !.next[n1] = t.next[n2]], LAMBDA t1:
    Bind(set_prev_if_present(t1, t1.next[n1], n1), LAMBDA t2:
    Bind(set_next_if_present(t2, t2.prev[n1], n1), LAMBDA t3:
    Bind(set_prev_if_present(t3, t3.next[n2], n2), LAMBDA t4:
    set_next_if_present(t4, t4.prev[n2], n2)))))

(***************************************************************************)
(* Rotations                                                               *)
(***************************************************************************)
\* variant: the subtree that changes sides keeps its old parent link
rotate_left_stale_parent(t, p) ==
  Bind(t.right[p], LAMBDA right_child:
  Bind([t EXCEPT !.right[p] = t.left[right_child]], LAMBDA t1:
  Bind([t1 EXCEPT !.left[right_child] = p,
                  !.parent[right_child] = t1.parent[p]], LAMBDA t3:
  Bind(replace_in_parent_by_left(t3, t3.parent[p], p, right_child), LAMBDA t4:
  [t4 EXCEPT !.parent[p] = right_child]))))

\* variant: the hook of rotate_left is called before the last link, the
\* parent of the node that goes down, is written
rotate_left_links_hook_early(t, p) ==
  Bind(t.right[p], LAMBDA right_child:
  Bind([t EXCEPT !.right[p] = t.left[right_child]], LAMBDA t1:
  Bind(set_parent_if_present(t1, t1.left[right_child], p), LAMBDA t2:
  Bind([t2 EXCEPT !.left[right_child] = p,
                  !.parent[right_child] = t2.parent[p]], LAMBDA t3:
  replace_in_parent_by_left(t3, t3.parent[p], p, right_child)))))

\* rotate_left up to its last statement, the call of the hook
rotate_left_links(t, p) ==
  Bind(t.right[p], LAMBDA right_child:
  Bind([t EXCEPT !.right[p] = t.left[right_child]], LAMBDA t1:
  Bind(set_parent_if_present(t1, t1.left[right_child], p), LAMBDA t2:
  Bind([t2 EXCEPT !.left[right_child] = p,
                  !.parent[right_child] = t2.parent[p]], LAMBDA t3:
  Bind(replace_in_parent_by_left(t3, t3.parent[p], p, right_child), LAMBDA t4:
  [t4 EXCEPT !.parent[p] = right_child])))))

\* rotate_right up to its last statement, the call of the hook
rotate_right_links(t, p) ==
  Bind(t.left[p], LAMBDA left_child:
  Bind([t EXCEPT !.left[p] = t.right[left_child]], LAMBDA t1:
  Bind(set_parent_if_present(t1, t1.right[left_child], p), LAMBDA t2:
  Bind([t2 EXCEPT !.right[left_child] = p,
                  !.parent[left_child] = t2.parent[p]], LAMBDA t3:
  Bind(replace_in_parent_by_left(t3, t3.parent[p], p, left_child), LAMBDA t4:
  [t4 EXCEPT !.parent[p] = left_child])))))

\* variant: the traits are not told of the rotation
rotate_left_unnoticed(t, p) ==
  Bind(t.right[p], LAMBDA right_child:
  Bind([t EXCEPT !.right[p] = t.left[right_child]], LAMBDA t1:
  Bind(set_parent_if_present(t1, t1.left[right_child], p), LAMBDA t2:
  Bind([t2 EXCEPT !.left[right_child] = p,
                  !.parent[right_child] = t2.parent[p]], LAMBDA t3:
  Bind(replace_in_parent_by_left(t3, t3.parent[p], p, right_child), LAMBDA t4:
  [t4 EXCEPT !.parent[p] = right_child])))))

rotate_left(t, p) ==
  Bind(t.right[p], LAMBDA right_child:
  Bind([t EXCEPT !.right[p] = t.left[right_child]], LAMBDA t1:
  Bind(set_parent_if_present(t1, t1.left[right_child], p), LAMBDA t2:
  Bind([t2 EXCEPT !.left[right_child] = p,
                  !.parent[right_child] = t2.parent[p]], LAMBDA t3:
  Bind(replace_in_parent_by_left(t3, t3.parent[p], p, right_child), LAMBDA t4:
  rotated_left([t4 EXCEPT !.parent[p] = right_child], p))))))

\* variant: the traits are not told of the right rotation
rotate_right_unnoticed(t, p) ==
  Bind(t.left[p], LAMBDA left_child:
  Bind([t EXCEPT !.left[p] = t.right[left_child]], LAMBDA t1:
  Bind(set_parent_if_present(t1, t1.right[left_child], p), LAMBDA t2:
  Bind([t2 EXCEPT !.right[left_child] = p,
                  !.parent[left_child] = t2.parent[p]], LAMBDA t3:
  Bind(replace_in_parent_by_left(t3, t3.parent[p], p, left_child), LAMBDA t4:
  [t4 EXCEPT !.parent[p] = left_child])))))

rotate_right(t, p) ==
  Bind(t.left[p], LAMBDA left_child:
  Bind([t EXCEPT !.left[p] = t.right[left_child]], LAMBDA t1:
  Bind(set_parent_if_present(t1, t1.right[left_child], p), LAMBDA t2:
  Bind([t2 EXCEPT !.right[left_child] = p,
                  !.parent[left_child] = t2.parent[p]], LAMBDA t3:
  Bind(replace_in_parent_by_left(t3, t3.parent[p], p, left_child), LAMBDA t4:
  rotated_right([t4 EXCEPT !.parent[p] = left_child], p))))))

(***************************************************************************)
(* Insertion                                                               *)
(***************************************************************************)
get_uncle(t, node) ==
  LET p == t.parent[node]
      grandparent == t.parent[p]
  IN IF t.left[grandparent] = p THEN t.right[grandparent] ELSE t.left[grandparent]

\* one pass of the uncle-is-red loop body: recolor parent and uncle BLACK
insert_recolor(t, node) ==
  [t EXCEPT !.color[t.parent[node]] = BLACK, !.color[get_uncle(t, node)] = BLACK]

\* variant: the loop also colors a grandparent RED that is the root
RECURSIVE fixup_insert_loop_into_root(_, _)
fixup_insert_loop_into_root(t, node) ==
  IF /\ t.color[t.parent[node]] = RED
     /\ get_uncle(t, node) # NIL
     /\ t.color[get_uncle(t, node)] = RED
  THEN Bind(insert_recolor(t, node), LAMBDA t1:
       Bind(t1.parent[t1.parent[node]], LAMBDA grandparent:
       Bind([t1 EXCEPT !.color[grandparent] = RED], LAMBDA t2:
         IF t1.parent[grandparent] # NIL
           THEN fixup_insert_loop_into_root(t2, grandparent)
           ELSE [t |-> t2, node |-> node, returned |-> TRUE])))
  ELSE [t |-> t, node |-> node, returned |-> FALSE]

\* the while loop of fixup_after_insert; returns the tree, the cursor and
\* whether the function returned from inside the loop
RECURSIVE fixup_insert_loop(_, _)
fixup_insert_loop(t, node) ==
  IF /\ t.color[t.parent[node]] = RED
     /\ get_uncle(t, node) # NIL
     /\ t.color[get_uncle(t, node)] = RED
  THEN Bind(insert_recolor(t, node), LAMBDA t1:
       Bind(t1.parent[t1.parent[node]], LAMBDA grandparent:
         IF t1.parent[grandparent] # NIL
           THEN fixup_insert_loop([t1 EXCEPT !.color[grandparent] = RED], grandparent)
           ELSE [t |-> t1, node |-> node, returned |-> TRUE]))
  ELSE [t |-> t, node |-> node, returned |-> FALSE]

\* variant: the 'straight' situation leaves the parent RED
insert_straight_skipped(t, p) == t

\* the 'straight' situation of fixup_after_insert: color the parent BLACK
insert_straight(t, p) == [t EXCEPT !.color[p] = BLACK]

\* fixup_after_insert behind its loop: the uncle is BLACK or missing
fixup_insert_rotate(t, node) ==
  IF t.color[t.parent[node]] = BLACK THEN t
  ELSE
    Bind(t.parent[node], LAMBDA p:
    Bind(t.parent[p], LAMBDA grandparent:
    Bind(IF t.left[grandparent] = p
           THEN rotate_right(IF t.right[p] = node
                               THEN [rotate_left(t, p) EXCEPT !.color[node] = BLACK]
                               ELSE insert_straight(t, p),
                             grandparent)
           ELSE rotate_left(IF t.left[p] = node
                              THEN [rotate_right(t, p) EXCEPT !.color[node] = BLACK]
                              ELSE insert_straight(t, p),
                            grandparent), LAMBDA t1:
    [t1 EXCEPT !.color[grandparent] = RED])))

fixup_after_insert(t0, node0) ==
  Bind(fixup_insert_loop(t0, node0), LAMBDA r:
    IF r.returned THEN r.t ELSE fixup_insert_rotate(r.t, r.node))

\* variant: the comparison of the descent has its arguments exchanged
RECURSIVE insert_descend_exchanged(_, _, _, _)
insert_descend_exchanged(t, node, cur, p) ==
  IF cur = NIL THEN p
  ELSE IF Cmp(node, cur)
         THEN insert_descend_exchanged(t, node, t.right[cur], cur)
         ELSE insert_descend_exchanged(t, node, t.left[cur], cur)

\* the descent loop of insert_leaf_base: returns the last non-null node
RECURSIVE insert_descend(_, _, _, _)
insert_descend(t, node, cur, p) ==
  IF cur = NIL THEN p
  ELSE IF Cmp(cur, node)
         THEN insert_descend(t, node, t.right[cur], cur)
         ELSE insert_descend(t, node, t.left[cur], cur)

\* insert_leaf_base behind its descent loop: node becomes a child of p, or
\* the root if p is null
insert_leaf_link(t, node, p, on_equality_prefer_left) ==
  IF p = NIL
    THEN leaf_inserted(
           equality_list_insert_after(
             [t EXCEPT !.parent[node] = NIL, !.color[node] = BLACK, !.root = node],
             node, NIL),
           node)
    ELSE
      Bind([t EXCEPT !.parent[node] = p, !.color[node] = RED], LAMBDA t1:
        IF Cmp(node, p)
          THEN fixup_after_insert(
                 leaf_inserted(
                   equality_list_insert_after([t1 EXCEPT !.left[p] = node], node, NIL),
                   node),
                 node)
        ELSE IF Cmp(p, node)
          THEN fixup_after_insert(
                 leaf_inserted(
                   equality_list_insert_after([t1 EXCEPT !.right[p] = node], node, NIL),
                   node),
                 node)
        ELSE IF ~multiple THEN t1
        ELSE IF on_equality_prefer_left
          THEN fixup_after_insert(
                 leaf_inserted(
                   equality_list_insert_before([t1 EXCEPT !.left[p] = node], node, p),
                   node),
                 node)
          ELSE fixup_after_insert(
                 leaf_inserted(
                   equality_list_insert_after([t1 EXCEPT !.right[p] = node], node, p),
                   node),
                 node))

insert_leaf_base(t0, node, start, on_equality_prefer_left) ==
  Bind([t0 EXCEPT !.right[node] = NIL, !.left[node] = NIL], LAMBDA t:
    insert_leaf_link(t, node, insert_descend(t, node, start, start),
                     on_equality_prefer_left))

\* variant: insert(node) places a node behind the equal parent
insert_leaf_prefer_right(t, node, start) == insert_leaf_base(t, node, start, FALSE)

insert_leaf(t, node, start) == insert_leaf_base(t, node, start, TRUE)

insert_leaf_right_biased(t, node, start) == insert_leaf_base(t, node, start, FALSE)

\* RBTree::insert(Node &)
insert(t, node) == insert_leaf(t, node, t.root)

\* the walk-up loop of insert(Node &, Node & hint)
RECURSIVE hint_walk_up(_, _, _)
hint_walk_up(t, node, p) ==
  IF t.parent[p] # NIL /\ Cmp(node, t.parent[p])
    THEN hint_walk_up(t, node, t.parent[p])
    ELSE p

\* RBTree::insert(Node &, Node & hint)
insert_hint(t, node, hint) == insert_leaf(t, node, hint_walk_up(t, node, hint))

(***************************************************************************)
(* Swapping two nodes' tree positions                                      *)
(***************************************************************************)
\* std::swap(a->_rbt_left, b->_rbt_left)
swap_left_links(t, a, b) ==
  [t EXCEPT !.left[a] = t.left[b], !.left[b] = t.left[a]]

\* std::swap(a->_rbt_right, b->_rbt_right)
swap_right_links(t, a, b) ==
  [t EXCEPT !.right[a] = t.right[b], !.right[b] = t.right[a]]

swap_neighbors(t, p, child) ==
  Bind([t EXCEPT !.parent[child] = t.parent[p]], LAMBDA t1:
  Bind([t1 EXCEPT !.parent[p] = child], LAMBDA t2:
  Bind(replace_in_parent_by_left(t2, t2.parent[child], p, child), LAMBDA t3:
    IF t3.left[p] = child
      THEN
        Bind([t3 EXCEPT !.left[p] = t3.left[child]], LAMBDA a1:
        Bind(set_parent_if_present(a1, a1.left[p], p), LAMBDA a2:
        Bind([a2 EXCEPT !.left[child] = p], LAMBDA a3:
        Bind(swap_right_links(a3, p, child), LAMBDA a4:
        Bind(set_parent_if_present(a4, a4.right[child], child), LAMBDA a5:
        set_parent_if_present(a5, a5.right[p], p))))))
      ELSE
        Bind([t3 EXCEPT !.right[p] = t3.right[child]], LAMBDA a1:
        Bind(set_parent_if_present(a1, a1.right[p], p), LAMBDA a2:
        Bind([a2 EXCEPT !.right[child] = p], LAMBDA a3:
        Bind(swap_left_links(a3, p, child), LAMBDA a4:
        Bind(set_parent_if_present(a4, a4.left[child], child), LAMBDA a5:
        set_parent_if_present(a5, a5.left[p], p)))))))))

swap_unrelated_nodes(t, n1, n2) ==
  Bind(swap_left_links(t, n1, n2), LAMBDA a1:
  Bind(set_parent_if_present(a1, a1.left[n1], n1), LAMBDA a2:
  Bind(set_parent_if_present(a2, a2.left[n2], n2), LAMBDA a3:
  Bind(swap_right_links(a3, n1, n2), LAMBDA b1:
  Bind(set_parent_if_present(b1, b1.right[n1], n1), LAMBDA b2:
  Bind(set_parent_if_present(b2, b2.right[n2], n2), LAMBDA b3:
  Bind([b3 EXCEPT !.parent[n1] = b3.parent[n2],
                  !.parent[n2] = b3.parent[n1]], LAMBDA c1:
  Bind(replace_in_parent_by_right(c1, c1.parent[n1], n2, n1), LAMBDA c2:
  replace_in_parent_by_right(c2, c2.parent[n2], n1, n2)))))))))

\* variant: the colors are swapped when swap_colors is true
swap_node_colors_inverted(t, n1, n2, swap_colors) ==
  IF swap_colors
    THEN [t EXCEPT !.color[n1] = t.color[n2], !.color[n2] = t.color[n1]]
    ELSE t

\* the std::swap of the two colors, executed when swap_colors is false
swap_node_colors(t, n1, n2, swap_colors) ==
  IF ~swap_colors
    THEN [t EXCEPT !.color[n1] = t.color[n2], !.color[n2] = t.color[n1]]
    ELSE t

swap_nodes(t, n1, n2, swap_colors) ==
  swapped(
    swap_node_colors(
      equality_list_swap_if_necessary(
        IF t.parent[n1] = n2 THEN swap_neighbors(t, n2, n1)
        ELSE IF t.parent[n2] = n1 THEN swap_neighbors(t, n1, n2)
        ELSE swap_unrelated_nodes(t, n1, n2),
        n1, n2),
      n1, n2, swap_colors),
    n1, n2)

(***************************************************************************)
(* Removal                                                                 *)
(***************************************************************************)
IsBlackOrNull(t, n) == IF n = NIL THEN TRUE ELSE t.color[n] = BLACK

\* variant: Case 3 propagates without recoloring the sibling
delete_keep_sibling(t, sibling) == t

\* Case 3 of fixup_after_delete: recolor the sibling
delete_recolor_sibling(t, sibling) == [t EXCEPT !.color[sibling] = RED]

\* the sibling of the deleted position below p
sibling_of(t, p, deleted_left) == IF deleted_left THEN t.right[p] ELSE t.left[p]

\* the propagate loop of fixup_after_delete; returns the tree, the final
\* parent / deleted_left / sibling, and whether the function returned
RECURSIVE fixup_delete_loop(_, _, _)
fixup_delete_loop(t, p, deleted_left) ==
  Bind(sibling_of(t, p, deleted_left), LAMBDA sibling:
    IF /\ t.color[p] = BLACK
       /\ t.color[sibling] = BLACK
       /\ IsBlackOrNull(t, t.left[sibling])
       /\ IsBlackOrNull(t, t.right[sibling])
    THEN Bind(delete_recolor_sibling(t, sibling), LAMBDA t1:
           IF t1.parent[p] = NIL
             THEN [t |-> t1, parent |-> p, deleted_left |-> deleted_left,
                   sibling |-> sibling, returned |-> TRUE]
             ELSE fixup_delete_loop(t1, t1.parent[p], t1.left[t1.parent[p]] = p))
    ELSE [t |-> t, parent |-> p, deleted_left |-> deleted_left,
          sibling |-> sibling, returned |-> FALSE])

\* Case 2 of fixup_after_delete: a RED sibling is rotated above the parent;
\* returns the tree and the new sibling
delete_red_sibling(t, p, deleted_left, sibling) ==
  IF t.color[sibling] = RED
    THEN Bind([t EXCEPT !.color[sibling] = BLACK, !.color[p] = RED], LAMBDA a:
         Bind(IF deleted_left THEN rotate_left(a, p) ELSE rotate_right(a, p), LAMBDA b:
         [t |-> b, sibling |-> sibling_of(b, p, deleted_left)]))
    ELSE [t |-> t, sibling |-> sibling]

\* Case 5 of fixup_after_delete: the sibling's far child is BLACK or missing,
\* the near child is rotated above the sibling; returns tree and new sibling
delete_near_child_up(t, deleted_left, sibling) ==
  IF IsBlackOrNull(t, IF deleted_left THEN t.right[sibling] ELSE t.left[sibling])
    THEN Bind(IF deleted_left THEN rotate_right(t, sibling)
                              ELSE rotate_left(t, sibling), LAMBDA a:
         Bind([a EXCEPT !.color[sibling] = RED], LAMBDA b:
         [t |-> [b EXCEPT !.color[b.parent[sibling]] = BLACK],
          sibling |-> b.parent[sibling]]))
    ELSE [t |-> t, sibling |-> sibling]

\* Case 6 of fixup_after_delete: rotate the sibling above the parent, swap
\* their colors and color the sibling's far child BLACK
delete_far_child_red(t, p, deleted_left, sibling) ==
  Bind(IF deleted_left THEN rotate_left(t, p) ELSE rotate_right(t, p), LAMBDA a:
  Bind([a EXCEPT !.color[p] = a.color[sibling],
                 !.color[sibling] = a.color[p]], LAMBDA b:
  IF deleted_left
    THEN [b EXCEPT !.color[b.right[sibling]] = BLACK]
    ELSE [b EXCEPT !.color[b.left[sibling]] = BLACK]))

\* Cases 4 to 6 of fixup_after_delete
delete_black_sibling(t, p, deleted_left, sibling) ==
  IF /\ t.color[sibling] = BLACK
     /\ IsBlackOrNull(t, t.left[sibling])
     /\ IsBlackOrNull(t, t.right[sibling])
    THEN [t EXCEPT !.color[p] = BLACK, !.color[sibling] = RED]
    ELSE Bind(delete_near_child_up(t, deleted_left, sibling), LAMBDA c5:
           delete_far_child_red(c5.t, p, deleted_left, c5.sibling))

fixup_after_delete(t0, parent0, deleted_left0) ==
  Bind(fixup_delete_loop(t0, parent0, deleted_left0), LAMBDA r:
    IF r.returned THEN r.t
    ELSE Bind(delete_red_sibling(r.t, r.parent, r.deleted_left, r.sibling), LAMBDA c2:
           delete_black_sibling(c2.t, r.parent, r.deleted_left, c2.sibling)))

\* the while loop that finds the minimum of the right subtree
RECURSIVE leftmost(_, _)
leftmost(t, n) == IF t.left[n] = NIL THEN n ELSE leftmost(t, t.left[n])

\* the node remove_to_leaf swaps the removed node with (the node itself if none)
remove_select_child(t, node) ==
  IF t.right[node] # NIL /\ t.left[node] # NIL THEN leftmost(t, t.right[node])
  ELSE IF t.left[node] # NIL THEN t.left[node]
  ELSE node

\* variant: the root link is not reset
remove_last_node_keep_root(t) == t

\* the removed node is a leaf without parent: the tree is now empty
remove_last_node(t) == [t EXCEPT !.root = NIL]

\* variant: the child that takes the place of node keeps its color
remove_replace_by_right_keep_color(t, node, right_child) ==
  Bind(swap_nodes(t, node, right_child, TRUE), LAMBDA a:
  Bind([a EXCEPT !.right[right_child] = NIL], LAMBDA c:
  deleted_below(equality_list_delete_node(c, node), right_child)))

\* remove_to_leaf: node still has a right child, which takes its place
remove_replace_by_right(t, node, right_child) ==
  Bind(swap_nodes(t, node, right_child, TRUE), LAMBDA a:
  Bind([a EXCEPT !.color[right_child] = BLACK], LAMBDA b:
  Bind([b EXCEPT !.right[right_child] = NIL], LAMBDA c:
  deleted_below(equality_list_delete_node(c, node), right_child))))

\* variant: the traits are not told of the deletion
remove_leaf_unnoticed(t, node, p, deleted_left) ==
  Bind(IF deleted_left
         THEN [t EXCEPT !.left[p] = NIL]
         ELSE [t EXCEPT !.right[p] = NIL], LAMBDA a:
  Bind(equality_list_delete_node(a, node), LAMBDA b:
  IF b.color[node] = BLACK
    THEN fixup_after_delete(b, b.parent[node], deleted_left)
    ELSE b))

\* remove_to_leaf: node is a leaf below p and is cut off
remove_leaf(t, node, p, deleted_left) ==
  Bind(IF deleted_left
         THEN [t EXCEPT !.left[p] = NIL]
         ELSE [t EXCEPT !.right[p] = NIL], LAMBDA a:
  Bind(deleted_below(equality_list_delete_node(a, node), p), LAMBDA b:
  IF b.color[node] = BLACK
    THEN fixup_after_delete(b, b.parent[node], deleted_left)
    ELSE b))

\* remove_to_leaf behind the swap with the selected child
remove_pseudo_leaf(t, node) ==
  IF t.right[node] # NIL
    THEN remove_replace_by_right(t, node, t.right[node])
  ELSE IF t.parent[node] # NIL
    THEN remove_leaf(t, node, t.parent[node], t.left[t.parent[node]] = node)
  ELSE remove_last_node(t)

remove_to_leaf(t0, node) ==
  Bind(remove_select_child(t0, node), LAMBDA child:
    remove_pseudo_leaf(
      IF child # node THEN swap_nodes(t0, node, child, FALSE) ELSE t0,
      node))

\* variant: removes the first node of the chain of equal keys
remove_first_equal(t, node) == remove_to_leaf(t, equality_list_find_first(t, node))

\* RBTree::remove(Node &)
remove(t, node) == remove_to_leaf(t, node)

(***************************************************************************)
(* Which nodes are linked: reachable from the root over child links.       *)
(* The walk is cut off at depth NumNodes so that it is defined on any link  *)
(* structure, also a cyclic one.                                           *)
(***************************************************************************)
RECURSIVE Below(_, _, _)
Below(t, n, d) ==
  IF n = NIL \/ d = 0 THEN {}
  ELSE {n} \cup Below(t, t.left[n], d - 1) \cup Below(t, t.right[n], d - 1)

LinkedIn(t) == Below(t, t.root, NumNodes)

Linked == LinkedIn(Tree)

\* the fields of a node object as its constructor leaves them; the
\* constructor gives _it_max_upper no value, leaf_inserted writes it before
\* it is read, and the model keeps 0 in it until then
node_constructed(t, node) ==
  [t EXCEPT !.left[node] = NIL, !.right[node] = NIL, !.parent[node] = NIL,
            !.color[node] = RED, !.prev[node] = NIL, !.next[node] = NIL,
            !.max_upper[node] = 0]

SetTree(t) ==
  /\ root' = t.root
  /\ left' = t.left
  /\ right' = t.right
  /\ parent' = t.parent
  /\ color' = t.color
  /\ prev' = t.prev
  /\ next' = t.next
  /\ max_upper' = t.max_upper

\* number of BLACK nodes on every path from n down to a null link, or -1
\* if two such paths differ (verify_black_paths)
RECURSIVE BlackHeight(_, _, _)
BlackHeight(t, n, d) ==
  IF n = NIL \/ d = 0 THEN 0
  ELSE Bind(BlackHeight(t, t.left[n], d - 1), LAMBDA l:
       Bind(BlackHeight(t, t.right[n], d - 1), LAMBDA r:
         IF l = -1 \/ r = -1 \/ l # r THEN -1
         ELSE IF t.color[n] = BLACK THEN l + 1 ELSE l))

\* RBTree::get_smallest, the node begin() refers to (NIL is end())
get_smallest(t) == IF t.root = NIL THEN NIL ELSE leftmost(t, t.root)

(***************************************************************************)
(* Queries and iterators.  An iterator is the node it refers to; NIL is    *)
(* end() (rend() for a reverse iterator).  A query key is a key value;     *)
(* Compare is called with the query on either side.                        *)
(***************************************************************************)
\* Compare()(query, *cur)
CmpQueryNode(query, cur) == query < key[cur]

\* Compare()(*cur, query)
CmpNodeQuery(cur, query) == key[cur] < query

\* the while loop that finds the maximum of the left subtree
RECURSIVE rightmost(_, _)
rightmost(t, n) == IF t.right[n] = NIL THEN n ELSE rightmost(t, t.right[n])

\* RBTree::get_largest, the node rbegin() refers to (NIL is rend())
get_largest(t) == IF t.root = NIL THEN NIL ELSE rightmost(t, t.root)

\* step_forward: skip over the nodes already visited (n is a right child)
RECURSIVE skip_up_from_right(_, _)
skip_up_from_right(t, n) ==
  IF t.parent[n] # NIL /\ t.right[t.parent[n]] = n
    THEN skip_up_from_right(t, t.parent[n])
    ELSE n

\* step_back: skip over the nodes already visited (n is a left child)
RECURSIVE skip_up_from_left(_, _)
skip_up_from_left(t, n) ==
  IF t.parent[n] # NIL /\ t.left[t.parent[n]] = n
    THEN skip_up_from_left(t, t.parent[n])
    ELSE n

\* variant: the climb stops one node early, at the last node skipped
step_forward_no_climb(t, n) ==
  IF t.right[n] # NIL THEN leftmost(t, t.right[n])
  ELSE skip_up_from_right(t, n)

\* IteratorHelperUnspecialized::step_forward
step_forward(t, n) ==
  IF t.right[n] # NIL THEN leftmost(t, t.right[n])
  ELSE t.parent[skip_up_from_right(t, n)]

\* IteratorHelperUnspecialized::step_back
step_back(t, n) ==
  IF t.left[n] # NIL THEN rightmost(t, t.left[n])
  ELSE t.parent[skip_up_from_left(t, n)]

\* variant: find returns the node the descent hits
find_hit_any(t, cur) == cur

\* find: the node returned when the descent hits a node equal to the query
find_hit(t, cur) == equality_list_find_first(t, cur)

\* the while loop of find
RECURSIVE find_loop(_, _, _)
find_loop(t, query, cur) ==
  IF cur = NIL THEN NIL
  ELSE IF CmpQueryNode(query, cur) THEN find_loop(t, query, t.left[cur])
  ELSE IF CmpNodeQuery(cur, query) THEN find_loop(t, query, t.right[cur])
  ELSE find_hit(t, cur)

\* RBTree::find
find(t, query) == find_loop(t, query, t.root)

\* the while loop of upper_bound
RECURSIVE upper_bound_loop(_, _, _, _)
upper_bound_loop(t, query, cur, bound) ==
  IF cur = NIL THEN bound
  ELSE IF CmpQueryNode(query, cur) THEN upper_bound_loop(t, query, t.left[cur], cur)
  ELSE IF CmpNodeQuery(cur, query) THEN upper_bound_loop(t, query, t.right[cur], bound)
  ELSE IF t.right[cur] # NIL THEN t.right[cur]
  ELSE upper_bound_loop(t, query, NIL, bound)

\* RBTree::upper_bound
upper_bound(t, query) == upper_bound_loop(t, query, t.root, NIL)

\* RBTree::iterator_to
iterator_to(node) == node

\* RBTree::cbegin / begin
cbegin(t) == get_smallest(t)

\* RBTree::crbegin / rbegin
crbegin(t) == get_largest(t)

\* RBTree::insert(Node &, const_iterator hint) with hint == end(): the
\* right-biased descent starts at the last node of the root's right spine
insert_end(t, node) ==
  IF t.root = NIL
    THEN insert_leaf_right_biased(t, node, NIL)
    ELSE insert_leaf_right_biased(t, node, rightmost(t, t.root))

(***************************************************************************)
(* verify_integrity and its sub-checks                                     *)
(***************************************************************************)
\* the nodes a range-based for loop over the tree visits: from cur on with
\* step_forward, until end()
RECURSIVE iterate_from(_, _, _)
iterate_from(t, cur, fuel) ==
  IF cur = NIL \/ fuel = 0 THEN {}
  ELSE {cur} \cup iterate_from(t, step_forward(t, cur), fuel - 1)

\* for (const Node & n : *this)
iterate(t) == iterate_from(t, cbegin(t), NumNodes)

\* EqualityListHelper::verify, "go left": the walk over _rbt_prev
RECURSIVE verify_chain_back(_, _, _, _)
verify_chain_back(t, node, cur, fuel) ==
  IF t.prev[cur] = NIL \/ fuel = 0 THEN TRUE
  ELSE IF t.next[t.prev[cur]] # cur THEN FALSE
  ELSE IF t.prev[cur] = node THEN FALSE
  ELSE verify_chain_back(t, node, t.prev[cur], fuel - 1)

\* EqualityListHelper::verify, "go right": the walk over _rbt_next
RECURSIVE verify_chain_forth(_, _, _, _)
verify_chain_forth(t, node, cur, fuel) ==
  IF t.next[cur] = NIL \/ fuel = 0 THEN TRUE
  ELSE IF t.prev[t.next[cur]] # cur THEN FALSE
  ELSE IF t.next[cur] = node THEN FALSE
  ELSE verify_chain_forth(t, node, t.next[cur], fuel - 1)

\* EqualityListHelper::verify
equality_list_verify(t, node) ==
  IF ~multiple THEN TRUE
  ELSE /\ verify_chain_back(t, node, node, NumNodes)
       /\ verify_chain_forth(t, node, node, NumNodes)

verify_black_root(t) == t.root = NIL \/ t.color[t.root] = BLACK

\* verify_black_paths, with its result and *path_length in one value
verify_black_paths(t, node) == BlackHeight(t, node, NumNodes) # -1

RECURSIVE verify_red_black(_, _, _)
verify_red_black(t, node, fuel) ==
  IF node = NIL \/ fuel = 0 THEN TRUE
  ELSE IF /\ t.color[node] = RED
          /\ \/ (t.right[node] # NIL /\ t.color[t.right[node]] = RED)
             \/ (t.left[node] # NIL /\ t.color[t.left[node]] = RED)
    THEN FALSE
  ELSE /\ verify_red_black(t, t.left[node], fuel - 1)
       /\ verify_red_black(t, t.right[node], fuel - 1)

verify_equality(t) ==
  IF ~multiple THEN TRUE
  ELSE \A n \in iterate(t) : equality_list_verify(t, n)

verify_order(t) ==
  \A n \in iterate(t) :
    /\ t.left[n] # NIL => ~Cmp(n, t.left[n])
    /\ t.right[n] # NIL => ~Cmp(t.right[n], n)

\* the second while loop of verify_tree: the in-order walk with its checks
RECURSIVE verify_tree_walk(_, _, _, _)
verify_tree_walk(t, cur, seen, fuel) ==
  IF cur = NIL \/ fuel = 0 THEN TRUE
  ELSE IF cur \in seen THEN FALSE
  ELSE IF t.left[cur] # NIL /\ (t.parent[t.left[cur]] # cur \/ t.right[cur] = cur)
    THEN FALSE
  ELSE IF t.right[cur] # NIL /\ (t.parent[t.right[cur]] # cur \/ t.right[cur] = cur)
    THEN FALSE
  ELSE verify_tree_walk(t, step_forward(t, cur), seen \cup {cur}, fuel - 1)

verify_tree(t) ==
  IF t.root = NIL THEN TRUE
  ELSE verify_tree_walk(t, leftmost(t, t.root), {}, NumNodes + 1)

verify_integrity(t) ==
  /\ verify_tree(t)
  /\ verify_black_root(t)
  /\ (t.root = NIL \/ verify_black_paths(t, t.root))
  /\ verify_red_black(t, t.root, NumNodes)
  /\ verify_order(t)
  /\ verify_equality(t)

\* the caller notes the insertion of n if another node of the run has n's
\* key; a node that is in the notes already is not noted twice
Noted(s, n) ==
  IF (\E m \in Pool \ {n} : Equal(m, n)) /\ (\A i \in 1..Len(s) : s[i] # n)
    THEN Append(s, n)
    ELSE s

\* the caller strikes n from its notes
Struck(s, n) == SelectSeq(s, LAMBDA m : m # n)

\* an iterator the caller holds has seen an insert or remove
Aged(i) == IF i.node = NIL THEN i ELSE [i EXCEPT !.aged = TRUE]

\* the node objects the caller of the Energy tree owns
ENodes == 1..NumEtNodes

\* the Energy tree after construction; the caller's nodes carry no links
EtEmpty ==
  [root |-> NIL,
   left |-> [n \in ENodes |-> NIL],
   right |-> [n \in ENodes |-> NIL],
   parent |-> [n \in ENodes |-> NIL],
   size |-> [n \in ENodes |-> 0],
   energy |-> [n \in ENodes |-> 0],
   buf |-> <<>>,
   fault |-> "none",
   asserts |-> FALSE]

\* a run with distinct keys on all nodes
InitDistinct ==
  /\ key = DistinctKeys
  /\ multiple = TRUE

\* a run with equal keys, with and without the MULTIPLE option
InitDup ==
  /\ key = DupKeys
  /\ multiple \in BOOLEAN

InitTree ==
  /\ root = NIL
  /\ left = [n \in Nodes |-> NIL]
  /\ right = [n \in Nodes |-> NIL]
  /\ parent = [n \in Nodes |-> NIL]
  /\ color = [n \in Nodes |-> RED]
  /\ prev = [n \in Nodes |-> NIL]
  /\ next = [n \in Nodes |-> NIL]
  /\ max_upper = [n \in Nodes |-> 0]
  /\ lastOp = [op |-> "none", bh |-> 0, mid |-> FALSE, arg |-> 0]
  /\ inserted = {}
  /\ hinted = 0
  /\ reusable = {}
  /\ et = EtEmpty
  /\ eqOrder = <<>>
  /\ it = [node |-> NIL, aged |-> FALSE]

Init == (InitDistinct \/ InitDup) /\ InitTree

InitHint == InitDup /\ InitTree

\* a run with queries, with and without the MULTIPLE option
InitIter ==
  /\ key = IterKeys
  /\ multiple \in BOOLEAN
  /\ InitTree

\* the caller inserts a node that is not linked
Insert ==
  \E n \in Pool \ Linked :
    /\ SetTree(insert(Tree, n))
    /\ lastOp' = [op |-> "insert", bh |-> BlackHeight(Tree, root, NumNodes),
                  mid |-> FALSE, arg |-> 0]
    /\ eqOrder' = Noted(eqOrder, n)
    /\ it' = Aged(it)
    /\ inserted' = inserted \cup {n}
    /\ reusable' = reusable \ {n}
    /\ UNCHANGED <<key, multiple, hinted, et>>

\* the caller inserts a node that is not linked, with a linked node as hint
InsertHint ==
  \E n \in Pool \ Linked : \E h \in Linked :
    /\ hinted < MaxHinted
    /\ SetTree(insert_hint(Tree, n, h))
    /\ lastOp' = [op |-> "insert_hint", bh |-> BlackHeight(Tree, root, NumNodes),
                  mid |-> FALSE, arg |-> 0]
    /\ eqOrder' = Noted(eqOrder, n)
    /\ it' = Aged(it)
    /\ inserted' = inserted \cup {n}
    /\ hinted' = hinted + 1
    /\ UNCHANGED <<key, multiple, reusable, et>>

\* the caller removes a linked node, then destroys and re-constructs it
Remove ==
  \E n \in Linked :
    /\ SetTree(node_constructed(remove(Tree, n), n))
    /\ lastOp' = [op |-> "remove", bh |-> BlackHeight(Tree, root, NumNodes),
                  mid |-> prev[n] # NIL /\ next[n] # NIL, arg |-> 0]
    /\ eqOrder' = Struck(eqOrder, n)
    /\ it' = IF it.node = n THEN [node |-> NIL, aged |-> FALSE] ELSE Aged(it)
    /\ inserted' = inserted \ {n}
    /\ UNCHANGED <<key, multiple, hinted, reusable, et>>

Next == Insert \/ Remove

\* insert(node) and remove(node) only
Spec == Init /\ [][Next]_vars

NextHint == Insert \/ InsertHint \/ Remove

\* insert(node), insert(node, hint) and remove(node)
SpecHint == InitHint /\ [][NextHint]_vars

\* the query keys the caller passes to find and upper_bound
QueryKeys == 0..NumIterNodes

\* the tree and node fields stay as they are
UnchangedTree ==
  UNCHANGED <<root, left, right, parent, color, prev, next, max_upper>>

\* the caller's books stay as they are
UnchangedBooks ==
  UNCHANGED <<key, multiple, inserted, hinted, eqOrder, reusable, et>>

\* a call that takes a query key and returns an iterator
QueryCall(name, query, result) ==
  /\ it' = [node |-> result, aged |-> FALSE]
  /\ lastOp' = [op |-> name, bh |-> 0, mid |-> FALSE, arg |-> query]
  /\ UnchangedTree
  /\ UnchangedBooks

\* it = find(query)
Find == \E query \in QueryKeys : QueryCall("find", query, find(Tree, query))

\* it = upper_bound(query)
UpperBound ==
  \E query \in QueryKeys : QueryCall("upper_bound", query, upper_bound(Tree, query))

\* it = iterator_to(m) for a linked node m
IteratorTo == \E m \in Linked : QueryCall("iterator_to", 0, iterator_to(m))

\* it = begin()
Begin == QueryCall("begin", 0, cbegin(Tree))

\* ++it, on an iterator that is not end()
Increment ==
  /\ it.node # NIL
  /\ it' = [it EXCEPT !.node = step_forward(Tree, it.node)]
  /\ lastOp' = [op |-> "increment", bh |-> 0, mid |-> FALSE, arg |-> 0]
  /\ UnchangedTree
  /\ UnchangedBooks

\* --it, on an iterator that is not end()
Decrement ==
  /\ it.node # NIL
  /\ it' = [it EXCEPT !.node = step_back(Tree, it.node)]
  /\ lastOp' = [op |-> "decrement", bh |-> 0, mid |-> FALSE, arg |-> 0]
  /\ UnchangedTree
  /\ UnchangedBooks

NextIter ==
  \/ Insert
  \/ Remove
  \/ Find
  \/ UpperBound
  \/ IteratorTo
  \/ Begin
  \/ Increment
  \/ Decrement

\* insert(node), remove(node), the queries and the iterator steps
SpecIter == InitIter /\ [][NextIter]_vars

\* the for loop of operator+=: "for (size_t i = 0 ; i < steps ; ++steps)";
\* i stays 0 and steps is what the loop counts up, so that the loop ends when
\* steps wraps around to 0.  done counts the single steps taken.  A step on
\* end() reads through a null pointer
RECURSIVE plus_assign_loop(_, _, _, _)
plus_assign_loop(t, n, steps, done) ==
  IF ~(0 < steps) THEN [node |-> n, done |-> done, null_read |-> FALSE]
  ELSE IF n = NIL THEN [node |-> n, done |-> done, null_read |-> TRUE]
  ELSE plus_assign_loop(t, step_forward(t, n), (steps + 1) % (2 ^ SizeBits),
                        done + 1)

\* const_iterator::operator+=(size_t steps)
operator_plus_assign(t, n, steps) == plus_assign_loop(t, n, steps, 0)

\* const_iterator::operator+(size_t steps): a copy is advanced and returned
operator_plus(t, n, steps) == operator_plus_assign(t, n, steps)

\* where an iterator may be left by a call: where the call put it, or, once
\* the call has read through a null pointer, anywhere
Outcomes(r) == IF r.null_read THEN Linked \cup {NIL} ELSE {r.node}

\* the last call returned without reading through a null pointer: the run
\* goes on
Returned == lastOp.op \in {"plus_assign", "plus"} => ~lastOp.null_read

\* it += steps, on an iterator that is end() or at a linked node
PlusAssign ==
  \E steps \in 0..MaxAdvance :
    /\ Returned
    /\ it.node \in Linked \cup {NIL}
    /\ \E r \in {operator_plus_assign(Tree, it.node, steps)} :
         /\ \E n \in Outcomes(r) : it' = [it EXCEPT !.node = n]
         /\ lastOp' = [op |-> "plus_assign", bh |-> 0, mid |-> FALSE,
                       arg |-> steps, done |-> r.done, null_read |-> r.null_read,
                       result |-> it'.node]
    /\ UnchangedTree
    /\ UnchangedBooks

\* it + steps: the iterator stays, the call returns a copy
Plus ==
  \E steps \in 0..MaxAdvance :
    /\ Returned
    /\ it.node \in Linked \cup {NIL}
    /\ \E r \in {operator_plus(Tree, it.node, steps)} :
         \E n \in Outcomes(r) :
           lastOp' = [op |-> "plus", bh |-> 0, mid |-> FALSE,
                      arg |-> steps, done |-> r.done, null_read |-> r.null_read,
                      result |-> n]
    /\ UNCHANGED it
    /\ UnchangedTree
    /\ UnchangedBooks

InsertReturned == Returned /\ Insert

RemoveReturned == Returned /\ Remove

BeginReturned == Returned /\ Begin

IncrementReturned == Returned /\ Increment

NextAdvance ==
  \/ InsertReturned
  \/ RemoveReturned
  \/ BeginReturned
  \/ IncrementReturned
  \/ PlusAssign
  \/ Plus

\* insert(node), remove(node), begin(), ++it, it += k and it + k
SpecAdvance == InitIter /\ [][NextAdvance]_vars

\* the caller inserts a node that is not linked, with end() as hint
InsertEnd ==
  \E n \in Pool \ Linked :
    /\ hinted < MaxHinted
    /\ SetTree(insert_end(Tree, n))
    /\ lastOp' = [op |-> "insert_end", bh |-> BlackHeight(Tree, root, NumNodes),
                  mid |-> FALSE, arg |-> 0]
    /\ eqOrder' = Noted(eqOrder, n)
    /\ it' = Aged(it)
    /\ inserted' = inserted \cup {n}
    /\ hinted' = hinted + 1
    /\ UNCHANGED <<key, multiple, reusable, et>>

NextEnd == Insert \/ InsertEnd \/ Remove

\* insert(node), insert(node, end()) and remove(node)
SpecEnd == InitIter /\ [][NextEnd]_vars

\* a run that reuses removed nodes, with and without the MULTIPLE option
InitReuse ==
  /\ key = ReuseKeys
  /\ multiple \in BOOLEAN
  /\ InitTree

\* the keys the caller writes into a removed node
NewKeys == 1..NumReuseNodes

\* the caller removes a linked node and keeps the node object as it is
RemoveKeep ==
  \E n \in Linked :
    /\ SetTree(remove(Tree, n))
    /\ lastOp' = [op |-> "remove", bh |-> BlackHeight(Tree, root, NumNodes),
                  mid |-> prev[n] # NIL /\ next[n] # NIL, arg |-> 0]
    /\ eqOrder' = Struck(eqOrder, n)
    /\ inserted' = inserted \ {n}
    /\ reusable' = reusable \cup {n}
    /\ UNCHANGED <<key, multiple, hinted, it, et>>

\* the caller writes a new key into a node it has removed
Rekey ==
  \E n \in reusable : \E k \in NewKeys \ {key[n]} :
    /\ key' = [key EXCEPT ![n] = k]
    /\ lastOp' = [op |-> "rekey", bh |-> 0, mid |-> FALSE, arg |-> 0]
    /\ UnchangedTree
    /\ UNCHANGED <<multiple, inserted, hinted, eqOrder, reusable, it, et>>

NextReuse == Insert \/ RemoveKeep \/ Rekey

\* remove(node), a new key for the removed node, insert(node) again
SpecReuse == InitReuse /\ [][NextReuse]_vars

(***************************************************************************)
(* Energy tree (src/src/energy.cpp).  The tree is one value et: the root,  *)
(* the intrusive fields of every node (_et_left, _et_right, _et_parent,    *)
(* _et_size, _et_energy), the member rebuild_buffer, and how the last call *)
(* ended (fault): "none" if it returned; "hang" if one of its loops never  *)
(* ends; "throw" if dbg_verify_sizes raised; "crash" if it dereferenced a  *)
(* null pointer or indexed the buffer out of range; "assert" if an assert  *)
(* failed in a build that has them.  Nothing is called on the tree once a  *)
(* call did not return.  Compare is the order of the node numbers.         *)
(***************************************************************************)
\* a loop over node pointers that makes more steps than there are nodes
\* comes back to a node and never ends
EtFuel == NumEtNodes + 1

\* what such a loop yields: neither a node nor NIL
HANG == NIL - 1

Fault(e, kind) == [e EXCEPT !.fault = kind]

\* the rest K of a function body runs if nothing went wrong so far
Then(e, K(_)) == IF e.fault # "none" THEN e ELSE K(e)

\* this->cmp(a, b)
EtCmp(a, b) == a < b

\* variant: energy >= 0.5 * size
Overcharged_at_half(e, n) == 2 * e.energy[n] >= e.size[n]

\* energy > 0.5 * size
Overcharged(e, n) == 2 * e.energy[n] > e.size[n]

\* while (n->_et_left != nullptr) n = n->_et_left
RECURSIVE et_leftmost(_, _, _)
et_leftmost(e, n, fuel) ==
  IF fuel = 0 THEN HANG
  ELSE IF e.left[n] = NIL THEN n
  ELSE et_leftmost(e, e.left[n], fuel - 1)

\* while (n->_et_right != nullptr) n = n->_et_right
RECURSIVE et_rightmost(_, _, _)
et_rightmost(e, n, fuel) ==
  IF fuel = 0 THEN HANG
  ELSE IF e.right[n] = NIL THEN n
  ELSE et_rightmost(e, e.right[n], fuel - 1)

\* the iterator's way up: over the parents n is the right child of, then
\* one parent further
RECURSIVE et_climb(_, _, _)
et_climb(e, n, fuel) ==
  IF fuel = 0 THEN HANG
  ELSE IF e.parent[n] # NIL /\ e.right[e.parent[n]] = n
    THEN et_climb(e, e.parent[n], fuel - 1)
  ELSE e.parent[n]

\* ++it of the in-order iterator: the next node, NIL for end()
et_next(e, n) ==
  IF e.right[n] # NIL THEN et_leftmost(e, e.right[n], EtFuel)
  ELSE et_climb(e, n, EtFuel)

\* the size of a child, 0 for nullptr
et_child_size(e, c) == IF c = NIL THEN 0 ELSE e.size[c]

\* the loop of dbg_verify_sizes from node n on
RECURSIVE verify_sizes_from(_, _, _)
verify_sizes_from(e, n, fuel) ==
  IF n = NIL THEN e
  ELSE IF n = HANG \/ fuel = 0 THEN Fault(e, "hang")
  ELSE IF e.size[n] # et_child_size(e, e.left[n]) + et_child_size(e, e.right[n]) + 1
    THEN Fault(e, "throw")
  ELSE verify_sizes_from(e, et_next(e, n), fuel - 1)

\* EnergyTree::get_smallest
et_get_smallest(e) ==
  IF e.root = NIL THEN NIL ELSE et_leftmost(e, e.root, EtFuel)

dbg_verify_sizes(e) == verify_sizes_from(e, et_get_smallest(e), EtFuel)

dbg_verify(e) == dbg_verify_sizes(e)

\* (1 << k)
Pow2(k) == 2 ^ k

\* std::ceil(std::log2(x)) for x >= 1
RECURSIVE CeilLog2From(_, _)
CeilLog2From(x, l) == IF Pow2(l) >= x THEN l ELSE CeilLog2From(x, l + 1)

CeilLog2(x) == CeilLog2From(x, 0)

\* __builtin_ctz(c) for c >= 1
RECURSIVE Ctz(_)
Ctz(c) == IF c % 2 = 1 THEN 0 ELSE 1 + Ctz(c \div 2)

\* rebuild_buffer[k]; a read out of range is taken as a null pointer, every
\* pointer read from the buffer is dereferenced by the caller
BufAt(e, k) == IF k < 0 \/ k >= Len(e.buf) THEN NIL ELSE e.buf[k + 1]

\* rebuild_buffer.resize(n): new elements are null pointers
buffer_resized(e, n) ==
  [e EXCEPT !.buf = [k \in 1..n |-> IF k <= Len(e.buf) THEN e.buf[k] ELSE NIL]]

\* n becomes a leaf of size 1 without energy
make_leaf(e, n) ==
  IF n = NIL THEN Fault(e, "crash")
  ELSE [e EXCEPT !.left[n] = NIL, !.right[n] = NIL, !.size[n] = 1, !.energy[n] = 0]

\* n->_et_parent = p
set_et_parent(e, n, p) ==
  IF n = NIL THEN Fault(e, "crash") ELSE [e EXCEPT !.parent[n] = p]

\* u gets the children l and r, the size s and no energy
make_inner(e, u, l, r, s) ==
  IF u = NIL THEN Fault(e, "crash")
  ELSE [e EXCEPT !.left[u] = l, !.right[u] = r, !.size[u] = s, !.energy[u] = 0]

\* the slot of the node with in-order number counter, in a tree of L levels
rebuild_slot(counter, L) ==
  (Pow2(L) - 1) - (Pow2(L - 1 - Ctz(counter)) - 1) - Pow2(L - 1 - Ctz(counter))
    + (counter \div Pow2(Ctz(counter) + 1))

\* the loop of rebuild_below that places the nodes into the buffer
RECURSIVE rebuild_fill(_, _, _, _, _, _)
rebuild_fill(e, at, counter, largest, L, fuel) ==
  IF at = largest THEN e
  ELSE IF fuel = 0 THEN Fault(e, "hang")
  ELSE Bind(et_next(e, at), LAMBDA nx:
    IF nx = HANG THEN Fault(e, "hang")
    ELSE IF nx = NIL THEN Fault(e, "crash")
    ELSE IF Ctz(counter + 1) > L - 1 THEN Fault(e, "crash")
    ELSE IF rebuild_slot(counter + 1, L) >= Len(e.buf) THEN Fault(e, "crash")
    ELSE rebuild_fill([e EXCEPT !.buf[rebuild_slot(counter + 1, L) + 1] = nx],
                      nx, counter + 1, largest, L, fuel - 1))

\* one pass of the loop that links two bottom nodes below their parent
link_bottom_pair(e, u, a, c) ==
  Then(make_inner(e, u, a, c, 3), LAMBDA e1:
  Then(make_leaf(e1, a), LAMBDA e2:
  Then(set_et_parent(e2, a, u), LAMBDA e3:
  Then(make_leaf(e3, c), LAMBDA e4:
  set_et_parent(e4, c, u)))))

\* for (; i < bottom_level_size - 1; i += 2)
RECURSIVE link_bottom_pairs(_, _, _, _)
link_bottom_pairs(e, i, bottom_level_size, upper_offset) ==
  IF e.fault # "none" \/ ~(i < bottom_level_size - 1) THEN e
  ELSE link_bottom_pairs(
         link_bottom_pair(e, BufAt(e, upper_offset + (i \div 2)),
                          BufAt(e, i), BufAt(e, i + 1)),
         i + 2, bottom_level_size, upper_offset)

\* the value of i behind that loop
bottom_pairs_end(bottom_level_size) == 2 * (bottom_level_size \div 2)

\* if (i < bottom_level_size): the last bottom node is a left child only
link_bottom_single(e, i, bottom_level_size, upper_offset) ==
  IF ~(i < bottom_level_size) THEN e
  ELSE Bind(BufAt(e, upper_offset + (i \div 2)), LAMBDA u:
       Bind(BufAt(e, i), LAMBDA a:
       Then(make_inner(e, u, a, NIL, 2), LAMBDA e1:
       Then(make_leaf(e1, a), LAMBDA e2:
       set_et_parent(e2, a, u)))))

\* for (size_t j = i / 2; j < ((1 << (tree_levels - 2)) - 1); j++)
RECURSIVE reset_remaining(_, _, _)
reset_remaining(e, j, L) ==
  IF e.fault # "none" \/ ~(j < Pow2(L - 2) - 1) THEN e
  ELSE reset_remaining(make_leaf(e, BufAt(e, j)), j + 1, L)

\* one pass of the loop that links two nodes of a level below their parent
link_pair(e, u, a, c) ==
  IF u = NIL \/ a = NIL \/ c = NIL THEN Fault(e, "crash")
  ELSE Then(make_inner(e, u, a, c, e.size[a] + e.size[c] + 1), LAMBDA e1:
       Then(set_et_parent(e1, a, u), LAMBDA e2:
       set_et_parent(e2, c, u)))

\* for (i = 0; i < current_lower_level_size; i += 2)
RECURSIVE link_level(_, _, _, _)
link_level(e, i, lower_offset, upper_offset) ==
  IF e.fault # "none" \/ ~(i < upper_offset - lower_offset) THEN e
  ELSE link_level(
         link_pair(e, BufAt(e, upper_offset + (i \div 2)),
                   BufAt(e, lower_offset + i), BufAt(e, lower_offset + i + 1)),
         i + 2, lower_offset, upper_offset)

\* while (level < tree_levels - 1)
RECURSIVE link_levels(_, _, _, _)
link_levels(e, level, upper_offset, L) ==
  IF e.fault # "none" \/ ~(level < L - 1) THEN e
  ELSE link_levels(
         link_level(e, 0, upper_offset, (Pow2(L) - 1) - Pow2(L - 1 - level) + 1),
         level + 1, (Pow2(L) - 1) - Pow2(L - 1 - level) + 1, L)

\* the part of rebuild_below guarded by tree_levels > 1
rebuild_link(e, node_size, L) ==
  IF ~(L > 1) THEN e
  ELSE
    Bind(Pow2(L) \div 2, LAMBDA upper_offset:
    Bind(upper_offset - ((Pow2(L) - 1) - node_size), LAMBDA bottom_level_size:
    Bind(bottom_pairs_end(bottom_level_size), LAMBDA i:
    Then(link_bottom_pairs(e, 0, bottom_level_size, upper_offset), LAMBDA e1:
    Then(link_bottom_single(e1, i, bottom_level_size, upper_offset), LAMBDA e2:
    Then(reset_remaining(e2, (IF i < bottom_level_size THEN i + 2 ELSE i) \div 2, L),
         LAMBDA e3:
    link_levels(e3, 1, upper_offset, L)))))))

\* "Top level connects to the original parent"
rebuild_connect(e, node, original_parent, original_size) ==
  Bind(BufAt(e, Len(e.buf) - 1), LAMBDA top:
  Then(set_et_parent(e, top, original_parent), LAMBDA e1:
  Then(IF original_parent = NIL THEN [e1 EXCEPT !.root = top]
       ELSE IF e1.left[original_parent] = node
         THEN [e1 EXCEPT !.left[original_parent] = top]
       ELSE IF e1.asserts /\ e1.right[original_parent] # node
         THEN Fault(e1, "assert")
       ELSE [e1 EXCEPT !.right[original_parent] = top], LAMBDA e2:
  [e2 EXCEPT !.size[top] = original_size, !.energy[top] = 0])))

\* rebuild_below behind its first dbg_verify
rebuild_checked(e, node, L) ==
  IF Pow2(L) - 1 < 1 THEN Fault(e, "crash")
  ELSE
    Bind(et_leftmost(e, node, EtFuel), LAMBDA smallest:
    Bind(et_rightmost(e, node, EtFuel), LAMBDA largest:
      IF smallest = HANG \/ largest = HANG THEN Fault(e, "hang")
      ELSE
        Then(rebuild_fill([buffer_resized(e, Pow2(L) - 1) EXCEPT !.buf[1] = smallest],
                          smallest, 1, largest, L, EtFuel), LAMBDA e1:
        Then(rebuild_link(e1, e.size[node], L), LAMBDA e2:
        Then(rebuild_connect(e2, node, e.parent[node], e.size[node]), LAMBDA e3:
        dbg_verify(e3))))))

\* EnergyTree::rebuild_below
rebuild_below(e, node) ==
  Then(dbg_verify(e), LAMBDA e1:
    IF e1.size[node] < 0 THEN Fault(e1, "crash")
    ELSE rebuild_checked(e1, node, CeilLog2(e1.size[node] + 1)))

\* cur->_et_size += 1; cur->_et_energy += 1
et_charge_grown(e, cur) ==
  [e EXCEPT !.size[cur] = e.size[cur] + 1, !.energy[cur] = e.energy[cur] + 1]

\* cur->_et_size -= 1; cur->_et_energy += 1
et_charge_shrunk(e, cur) ==
  [e EXCEPT !.size[cur] = e.size[cur] - 1, !.energy[cur] = e.energy[cur] + 1]

\* the while (true) loop of insert; returns the tree and rebuild_at
RECURSIVE et_insert_descend(_, _, _, _, _)
et_insert_descend(e0, node, cur, rebuild_at0, fuel) ==
  IF fuel = 0 THEN [e |-> Fault(e0, "hang"), rebuild_at |-> NIL]
  ELSE
    Bind(et_charge_grown(e0, cur), LAMBDA e:
    Bind(IF rebuild_at0 = NIL /\ Overcharged(e, cur) THEN cur ELSE rebuild_at0,
         LAMBDA rebuild_at:
      IF EtCmp(cur, node)
        THEN IF e.right[cur] # NIL
               THEN et_insert_descend(e, node, e.right[cur], rebuild_at, fuel - 1)
               ELSE [e |-> [e EXCEPT !.right[cur] = node, !.parent[node] = cur],
                     rebuild_at |-> rebuild_at]
        ELSE IF e.left[cur] # NIL
               THEN et_insert_descend(e, node, e.left[cur], rebuild_at, fuel - 1)
               ELSE [e |-> [e EXCEPT !.left[cur] = node, !.parent[node] = cur],
                     rebuild_at |-> rebuild_at]))

\* insert behind the initialisation of the node, for a tree with a root
et_insert_below_root(e, node) ==
  Bind(et_insert_descend(e, node, e.root, NIL, EtFuel), LAMBDA r:
  Then(r.e, LAMBDA e1:
  Then(dbg_verify(e1), LAMBDA e2:
    IF r.rebuild_at # NIL THEN rebuild_below(e2, r.rebuild_at) ELSE e2)))

\* EnergyTree::insert
et_insert(e0, node) ==
  Then(dbg_verify(e0), LAMBDA e1:
  Bind([e1 EXCEPT !.size[node] = 1, !.energy[node] = 0,
                  !.left[node] = NIL, !.right[node] = NIL], LAMBDA e:
    IF e.root = NIL
      THEN [e EXCEPT !.root = node, !.parent[node] = NIL]
      ELSE et_insert_below_root(e, node)))

\* the first loop of remove, over the ancestors of the node; returns the
\* tree, rebuild_at and rebuild_set_upwards
RECURSIVE et_remove_ascend(_, _, _, _)
et_remove_ascend(e0, cur0, rebuild_at0, fuel) ==
  IF e0.parent[cur0] = NIL THEN [e |-> e0, rebuild_at |-> rebuild_at0]
  ELSE IF fuel = 0 THEN [e |-> Fault(e0, "hang"), rebuild_at |-> NIL]
  ELSE
    Bind(e0.parent[cur0], LAMBDA cur:
    Bind(et_charge_shrunk(e0, cur), LAMBDA e:
      et_remove_ascend(e, cur, IF Overcharged(e, cur) THEN cur ELSE rebuild_at0,
                       fuel - 1)))

\* "This is a leaf. We can just delete."
et_remove_leaf(e, cur) ==
  Bind(e.parent[cur], LAMBDA p:
    IF p = NIL THEN [e EXCEPT !.root = NIL]
    ELSE IF e.left[p] = cur THEN [e EXCEPT !.left[p] = NIL]
    ELSE IF e.asserts /\ e.right[p] # cur THEN Fault(e, "assert")
    ELSE [e EXCEPT !.right[p] = NIL])

\* "Find the largest among the less-or-equal children" (towards = "right")
\* and "Find the smallest among the greater-or-equal children" (towards =
\* "left"); returns the tree, the child found and rebuild_at
RECURSIVE et_remove_descend(_, _, _, _, _, _)
et_remove_descend(e0, cur, child, rebuild_at0, towards, fuel) ==
  IF e0[towards][child] = NIL
    THEN [e |-> e0, child |-> child, rebuild_at |-> rebuild_at0]
  ELSE IF fuel = 0
    THEN [e |-> Fault(e0, "hang"), child |-> child, rebuild_at |-> NIL]
  ELSE
    Bind(et_charge_shrunk(e0, child), LAMBDA e:
      et_remove_descend(e, cur, e[towards][child],
                        IF rebuild_at0 = NIL /\ Overcharged(e, cur)
                          THEN child ELSE rebuild_at0,
                        towards, fuel - 1))

\* "Splice this child out of the tree": the child's only subtree, on the
\* side `side`, takes the child's place; `expected` is the side of its
\* parent the child is expected on
et_splice_child(e, child, side, expected) ==
  IF e[side][child] = NIL THEN e
  ELSE IF e.parent[child] = NIL THEN Fault(e, "crash")
  ELSE
    Bind(e.parent[child], LAMBDA p:
    Bind(IF expected = "right" THEN "left" ELSE "right", LAMBDA other:
    Then(IF e[expected][p] = child
           THEN [e EXCEPT ![expected][p] = e[side][child]]
         ELSE IF e.asserts /\ e[other][p] # child THEN Fault(e, "assert")
         ELSE [e EXCEPT ![other][p] = e[side][child]], LAMBDA e1:
    [e1 EXCEPT !.parent[e1[side][child]] = p])))

\* "Move the child up where the node to be deleted was"
et_move_child_up(e0, node, child) ==
  Bind([e0 EXCEPT !.left[child] = e0.left[node],
                  !.right[child] = e0.right[node]], LAMBDA e:
  Then(IF e.parent[node] = NIL THEN [e EXCEPT !.root = child]
       ELSE IF e.left[e.parent[node]] = node
         THEN [e EXCEPT !.left[e.parent[node]] = child]
       ELSE IF e.asserts /\ e.right[e.parent[node]] # node
         THEN Fault(e, "assert")
       ELSE [e EXCEPT !.right[e.parent[node]] = child], LAMBDA e1:
  Bind([e1 EXCEPT !.parent[child] = e1.parent[node]], LAMBDA e2:
  [e2 EXCEPT !.energy[child] = e2.energy[node] + 1,
             !.size[child] = e2.size[node] - 1])))

\* remove of a node with a child; returns the tree and rebuild_at
et_remove_inner(e0, node, rebuild_at0, rebuild_set_upwards) ==
  Bind(IF e0.left[node] # NIL
         THEN et_remove_descend(e0, node, e0.left[node], rebuild_at0, "right", EtFuel)
         ELSE et_remove_descend(e0, node, e0.right[node], rebuild_at0, "left", EtFuel),
       LAMBDA d:
  Bind(Then(d.e, LAMBDA e1:
       Then(IF e0.left[node] # NIL
              THEN et_splice_child(e1, d.child, "left", "right")
              ELSE et_splice_child(e1, d.child, "right", "left"), LAMBDA e2:
       et_move_child_up(e2, node, d.child))), LAMBDA e3:
  [e |-> e3,
   rebuild_at |-> IF e3.fault = "none" /\ ~rebuild_set_upwards
                     /\ Overcharged(e3, d.child)
                    THEN d.child ELSE d.rebuild_at]))

\* EnergyTree::remove
et_remove(e0, node) ==
  Bind(et_remove_ascend(e0, node, NIL, EtFuel), LAMBDA a:
  Then(a.e, LAMBDA e1:
  Bind(IF e1.left[node] = NIL /\ e1.right[node] = NIL
         THEN [e |-> et_remove_leaf(e1, node), rebuild_at |-> a.rebuild_at]
         ELSE et_remove_inner(e1, node, a.rebuild_at, a.rebuild_at # NIL),
       LAMBDA r:
  Then(r.e, LAMBDA e2:
    IF r.rebuild_at # NIL THEN rebuild_below(e2, r.rebuild_at) ELSE e2))))

\* a run on the Energy tree
InitEnergy == InitDistinct /\ InitTree

\* what a call leaves: the tree it built if it returned; if it did not, the
\* tree is not looked at again and only the kind of fault is kept
EtOutcome(before, after) ==
  IF after.fault # "none" THEN [before EXCEPT !.fault = after.fault]
  ELSE [after EXCEPT !.asserts = FALSE]

\* the size and energy fields stay within the range of a run
EtInRange(e) ==
  \A n \in ENodes : e.size[n] \in 0..MaxCount /\ e.energy[n] \in 0..MaxCount

\* the RBTree is not touched
UnchangedRBTree ==
  /\ UnchangedTree
  /\ UNCHANGED <<key, multiple, hinted, eqOrder, reusable, it>>

\* the caller inserts a node it does not hold in the tree; the build has
\* asserts or not
EtInsert ==
  \E n \in (1..NumEtFreeNodes) \ inserted : \E a \in BOOLEAN :
    /\ et.fault = "none"
    /\ et' = EtOutcome(et, et_insert([et EXCEPT !.asserts = a], n))
    /\ EtInRange(et')
    /\ inserted' = inserted \cup {n}
    /\ lastOp' = [op |-> "et_insert", bh |-> 0, mid |-> FALSE, arg |-> 0]
    /\ UnchangedRBTree

\* the caller removes a node it holds in the tree
EtRemove ==
  \E n \in ENodes \cap inserted : \E a \in BOOLEAN :
    /\ et.fault = "none"
    /\ et' = EtOutcome(et, et_remove([et EXCEPT !.asserts = a], n))
    /\ EtInRange(et')
    /\ inserted' = inserted \ {n}
    /\ lastOp' = [op |-> "et_remove", bh |-> 0, mid |-> FALSE, arg |-> 0]
    /\ UnchangedRBTree

\* the caller fills the tree in ascending order: it inserts node n while it
\* holds exactly the nodes before n in the tree
EtAppend ==
  \E n \in ENodes : \E a \in BOOLEAN :
    /\ inserted = 1..(n - 1)
    /\ et.fault = "none"
    /\ et' = EtOutcome(et, et_insert([et EXCEPT !.asserts = a], n))
    /\ EtInRange(et')
    /\ inserted' = inserted \cup {n}
    /\ lastOp' = [op |-> "et_insert", bh |-> 0, mid |-> FALSE, arg |-> 0]
    /\ UnchangedRBTree

NextEnergy == EtInsert \/ EtRemove

NextEnergyAscending == EtAppend \/ EtRemove

\* the Energy tree is filled in ascending order and drained in any order
SpecEnergyAscending == InitEnergy /\ [][NextEnergyAscending]_vars

\* insert(node) and remove(node) on the Energy tree
SpecEnergy == InitEnergy /\ [][NextEnergy]_vars

\* EnergyTree::empty
et_empty(e) == e.root = NIL

\* a round trip: the caller inserts a node while it has not begun to remove
EtFill ==
  \E n \in (1..NumEtFreeNodes) \ inserted : \E a \in BOOLEAN :
    /\ lastOp.op # "et_drain" \/ inserted = {}
    /\ et.fault = "none"
    /\ et' = EtOutcome(et, et_insert([et EXCEPT !.asserts = a], n))
    /\ EtInRange(et')
    /\ inserted' = inserted \cup {n}
    /\ lastOp' = [op |-> "et_fill", bh |-> 0, mid |-> FALSE, arg |-> 0]
    /\ UnchangedRBTree

\* a round trip: the caller removes a node it inserted; from now on it only
\* removes until it holds no node
EtDrain ==
  \E n \in ENodes \cap inserted : \E a \in BOOLEAN :
    /\ et.fault = "none"
    /\ et' = EtOutcome(et, et_remove([et EXCEPT !.asserts = a], n))
    /\ EtInRange(et')
    /\ inserted' = inserted \ {n}
    /\ lastOp' = [op |-> "et_drain", bh |-> 0, mid |-> FALSE, arg |-> 0]
    /\ UnchangedRBTree

NextEnergyRoundTrip == EtFill \/ EtDrain

\* a set of nodes is inserted in any order and then removed in any order
SpecEnergyRoundTrip == InitEnergy /\ [][NextEnergyRoundTrip]_vars

(***************************************************************************)
(* IntervalTree (src/src/intervaltree.hpp): an RBTree whose NodeTraits     *)
(* hooks keep _it_max_upper, and the overlap query on it.  A query         *)
(* interval [lower, upper) is written as one number like a key.            *)
(***************************************************************************)
\* the query intervals the caller passes
Queries ==
  UNION {{lo * EndStride + hi : hi \in (lo + 1)..(MaxEnd + 1)} : lo \in 0..MaxEnd}

q_lower(q) == q \div EndStride
q_upper(q) == q % EndStride

\* half-open overlap of the interval of node n with q
overlaps(n, q) == get_lower(n) < q_upper(q) /\ q_lower(q) < get_upper(n)

\* the walk of find_next_overlapping.  mode is what the walk does at cur:
\* "descend" into the left subtree if it may hold an overlap, "visit" cur,
\* "advance" behind cur (into the right subtree or upward), "ascend" from
\* cur.  Returns the node found (NIL for none) and the cursors stepped to.
RECURSIVE overlap_walk(_, _, _, _, _, _)
overlap_walk(t, q, cur, mode, steps, fuel) ==
  IF fuel = 0 THEN [hit |-> HANG, steps |-> steps]
  ELSE IF mode = "descend" THEN
    IF t.left[cur] # NIL /\ t.max_upper[t.left[cur]] > q_lower(q)
      THEN overlap_walk(t, q, t.left[cur], "descend",
                        Append(steps, t.left[cur]), fuel - 1)
      ELSE overlap_walk(t, q, cur, "visit", steps, fuel - 1)
  ELSE IF mode = "visit" THEN
    IF overlaps(cur, q) THEN [hit |-> cur, steps |-> steps]
    ELSE overlap_walk(t, q, cur, "advance", steps, fuel - 1)
  ELSE IF mode = "advance" THEN
    IF get_lower(cur) < q_upper(q) /\ t.right[cur] # NIL
      THEN overlap_walk(t, q, t.right[cur], "descend",
                        Append(steps, t.right[cur]), fuel - 1)
      ELSE overlap_walk(t, q, cur, "ascend", steps, fuel - 1)
  ELSE
    IF t.parent[cur] = NIL THEN [hit |-> NIL, steps |-> Append(steps, NIL)]
    ELSE IF t.right[t.parent[cur]] = cur
      THEN overlap_walk(t, q, t.parent[cur], "ascend",
                        Append(steps, t.parent[cur]), fuel - 1)
    ELSE IF get_lower(t.parent[cur]) >= q_upper(q)
      THEN overlap_walk(t, q, t.parent[cur], "ascend",
                        Append(steps, t.parent[cur]), fuel - 1)
    ELSE overlap_walk(t, q, t.parent[cur], "visit",
                      Append(steps, t.parent[cur]), fuel - 1)

\* utilities::find_next_overlapping<Node, NodeTraits, skipfirst, Comparable>
find_next_overlapping(t, cur, skipfirst, q) ==
  overlap_walk(t, q, cur, IF skipfirst THEN "advance" ELSE "descend", <<>>,
               4 * NumNodes)

\* a run on an IntervalTree
InitInterval ==
  /\ key = IntervalKeys
  /\ multiple = TRUE
  /\ InitTree

\* for (it = query(q).begin(); it != end(); ++it): returns the nodes the
\* loop meets and the cursors the walks stepped to
RECURSIVE query_iterate(_, _, _, _, _, _)
query_iterate(t, q, n, emitted, steps, fuel) ==
  IF n = NIL THEN [emitted |-> emitted, steps |-> steps]
  ELSE IF n = HANG \/ fuel = 0 THEN [emitted |-> Append(emitted, HANG), steps |-> steps]
  ELSE Bind(find_next_overlapping(t, n, TRUE, q), LAMBDA r:
         query_iterate(t, q, r.hit, Append(emitted, n), steps \o r.steps, fuel - 1))

\* the loop from begin() on
query_loop(t, q) ==
  IF t.root = NIL THEN [emitted |-> <<>>, steps |-> <<>>]
  ELSE Bind(find_next_overlapping(t, t.root, FALSE, q), LAMBDA r:
         query_iterate(t, q, r.hit, <<>>, r.steps, NumNodes + 1))

\* the caller iterates over query(q) from begin() to end(), once between
\* two changes of the tree; lastOp keeps what the loop met
ItQuery ==
  \E q \in Queries :
    /\ lastOp.op # "query"
    /\ lastOp' = Bind(query_loop(Tree, q), LAMBDA r:
                    [op |-> "query", bh |-> 0, mid |-> FALSE, arg |-> q,
                     emitted |-> r.emitted, steps |-> r.steps])
    /\ it' = Aged(it)
    /\ UnchangedTree
    /\ UnchangedBooks

NextInterval == Insert \/ Remove \/ ItQuery

\* insert(node), remove(node) and overlap queries on an IntervalTree
SpecInterval == InitInterval /\ [][NextInterval]_vars

(***************************************************************************)
(* insert(Node &) statement by statement                                   *)
(*                                                                         *)
(* In these runs a call of insert is not one step: lastOp holds the        *)
(* position of the call in progress (op), the node passed (arg), the       *)
(* locals node, parent and grandparent of fixup_after_insert, which branch *)
(* of `grandparent->_rbt_left == parent` was taken (left_side), and how    *)
(* many loop iterations and rotations the call has made so far.  op is     *)
(* "insert" again once the call has returned.  A rotation is one step: it  *)
(* assigns no color, and the root during it is the old or the new one.     *)
(***************************************************************************)
\* insert_leaf_base from behind its descent loop up to the call of
\* fixup_after_insert: node becomes a child of p, or the root if p is null
insert_leaf_place(t, node, p, on_equality_prefer_left) ==
  IF p = NIL
    THEN leaf_inserted(
           equality_list_insert_after(
             [t EXCEPT !.parent[node] = NIL, !.color[node] = BLACK, !.root = node],
             node, NIL),
           node)
    ELSE
      Bind([t EXCEPT !.parent[node] = p, !.color[node] = RED], LAMBDA t1:
        IF Cmp(node, p)
          THEN leaf_inserted(
                 equality_list_insert_after([t1 EXCEPT !.left[p] = node], node, NIL),
                 node)
        ELSE IF Cmp(p, node)
          THEN leaf_inserted(
                 equality_list_insert_after([t1 EXCEPT !.right[p] = node], node, NIL),
                 node)
        ELSE IF ~multiple THEN t1
        ELSE IF on_equality_prefer_left
          THEN leaf_inserted(
                 equality_list_insert_before([t1 EXCEPT !.left[p] = node], node, p),
                 node)
          ELSE leaf_inserted(
                 equality_list_insert_after([t1 EXCEPT !.right[p] = node], node, p),
                 node))

\* whether insert_leaf_base goes on to call fixup_after_insert
insert_leaf_fixes_up(node, p) ==
  p # NIL /\ (Cmp(node, p) \/ Cmp(p, node) \/ multiple)

\* the condition of the while loop of fixup_after_insert
fixup_loop_condition(t, node) ==
  /\ t.color[t.parent[node]] = RED
  /\ get_uncle(t, node) # NIL
  /\ t.color[get_uncle(t, node)] = RED

\* no call is in progress
AtRest == lastOp.op \in {"none", "insert", "remove"}

\* the call returns: its locals are gone, the counts stay for the caller's
\* notes
InsertReturns(o) ==
  [o EXCEPT !.op = "insert", !.arg = 0, !.node = NIL, !.parent = NIL,
            !.grandparent = NIL, !.left_side = FALSE]

\* insert_leaf_base(node, root) up to its call of fixup_after_insert
InsertLeafBase ==
  \E n \in Pool \ Linked :
    \E p \in {insert_descend([Tree EXCEPT !.right[n] = NIL, !.left[n] = NIL],
                             n, root, root)} :
      /\ AtRest
      /\ SetTree(insert_leaf_place([Tree EXCEPT !.right[n] = NIL, !.left[n] = NIL],
                                   n, p, TRUE))
      /\ lastOp' = Bind([op |-> "fixup", bh |-> BlackHeight(Tree, root, NumNodes),
                          mid |-> FALSE, arg |-> n, node |-> n, parent |-> NIL,
                          grandparent |-> NIL, left_side |-> FALSE, loops |-> 0,
                          rotations |-> 0],
                         LAMBDA o: IF insert_leaf_fixes_up(n, p) THEN o
                                   ELSE InsertReturns(o))
      /\ eqOrder' = Noted(eqOrder, n)
      /\ it' = Aged(it)
      /\ inserted' = inserted \cup {n}
      /\ reusable' = reusable \ {n}
      /\ UNCHANGED <<key, multiple, hinted, et>>

\* variant: the loop body does not look whether the grandparent is the root
FixupLoopRecolor_into_root ==
  /\ lastOp.op = "fixup"
  /\ fixup_loop_condition(Tree, lastOp.node)
  /\ SetTree(insert_recolor(Tree, lastOp.node))
  /\ lastOp' = [lastOp EXCEPT !.op = "ascend", !.loops = @ + 1]
  /\ UnchangedBooks
  /\ UNCHANGED it

\* the loop body of fixup_after_insert up to its if: parent and uncle BLACK;
\* the call returns here if the grandparent is the root
FixupLoopRecolor ==
  /\ lastOp.op = "fixup"
  /\ fixup_loop_condition(Tree, lastOp.node)
  /\ SetTree(insert_recolor(Tree, lastOp.node))
  /\ lastOp' = IF parent[parent[parent[lastOp.node]]] # NIL
                 THEN [lastOp EXCEPT !.op = "ascend", !.loops = @ + 1]
                 ELSE InsertReturns([lastOp EXCEPT !.loops = @ + 1])
  /\ UnchangedBooks
  /\ UNCHANGED it

\* variant: the cursor moves up one level only
FixupLoopAscend_one_level ==
  /\ lastOp.op = "ascend"
  /\ SetTree([Tree EXCEPT !.color[parent[parent[lastOp.node]]] = RED])
  /\ lastOp' = [lastOp EXCEPT !.op = "fixup", !.node = parent[lastOp.node]]
  /\ UnchangedBooks
  /\ UNCHANGED it

\* the rest of the loop body: the grandparent RED, the cursor on it
FixupLoopAscend ==
  /\ lastOp.op = "ascend"
  /\ SetTree([Tree EXCEPT !.color[parent[parent[lastOp.node]]] = RED])
  /\ lastOp' = [lastOp EXCEPT !.op = "fixup", !.node = parent[parent[lastOp.node]]]
  /\ UnchangedBooks
  /\ UNCHANGED it

\* behind the loop: the parent is BLACK, the call returns
FixupParentBlack ==
  /\ lastOp.op = "fixup"
  /\ ~fixup_loop_condition(Tree, lastOp.node)
  /\ color[parent[lastOp.node]] = BLACK
  /\ lastOp' = InsertReturns(lastOp)
  /\ UnchangedTree
  /\ UnchangedBooks
  /\ UNCHANGED it

\* the cursor is the inner grandchild of its grandparent
fixup_folded(t, node) ==
  Bind(t.parent[node], LAMBDA p:
    IF t.left[t.parent[p]] = p THEN t.right[p] = node ELSE t.left[p] = node)

\* 'folded in': the rotation of the parent
FixupFoldRotate ==
  /\ lastOp.op = "fixup"
  /\ ~fixup_loop_condition(Tree, lastOp.node)
  /\ color[parent[lastOp.node]] = RED
  /\ fixup_folded(Tree, lastOp.node)
  /\ \E p \in {parent[lastOp.node]} : \E g \in {parent[parent[lastOp.node]]} :
       /\ SetTree(IF left[g] = p THEN rotate_left(Tree, p) ELSE rotate_right(Tree, p))
       /\ lastOp' = [lastOp EXCEPT !.op = "folded", !.parent = p, !.grandparent = g,
                                   !.left_side = (left[g] = p), !.rotations = @ + 1]
  /\ UnchangedBooks
  /\ UNCHANGED it

\* 'folded in': the cursor BLACK
FixupFoldColor ==
  /\ lastOp.op = "folded"
  /\ SetTree([Tree EXCEPT !.color[lastOp.node] = BLACK])
  /\ lastOp' = [lastOp EXCEPT !.op = "final"]
  /\ UnchangedBooks
  /\ UNCHANGED it

\* 'straight': the parent BLACK
FixupStraightColor ==
  /\ lastOp.op = "fixup"
  /\ ~fixup_loop_condition(Tree, lastOp.node)
  /\ color[parent[lastOp.node]] = RED
  /\ ~fixup_folded(Tree, lastOp.node)
  /\ \E p \in {parent[lastOp.node]} : \E g \in {parent[parent[lastOp.node]]} :
       /\ SetTree(insert_straight(Tree, p))
       /\ lastOp' = [lastOp EXCEPT !.op = "final", !.parent = p, !.grandparent = g,
                                   !.left_side = (left[g] = p)]
  /\ UnchangedBooks
  /\ UNCHANGED it

\* the rotation of the grandparent that ends both situations
FixupFinalRotate ==
  /\ lastOp.op = "final"
  /\ SetTree(IF lastOp.left_side THEN rotate_right(Tree, lastOp.grandparent)
                                 ELSE rotate_left(Tree, lastOp.grandparent))
  /\ lastOp' = [lastOp EXCEPT !.op = "rotated", !.rotations = @ + 1]
  /\ UnchangedBooks
  /\ UNCHANGED it

\* the last statement of fixup_after_insert: the grandparent RED
FixupGrandparentRed ==
  /\ lastOp.op = "rotated"
  /\ SetTree([Tree EXCEPT !.color[lastOp.grandparent] = RED])
  /\ lastOp' = InsertReturns(lastOp)
  /\ UnchangedBooks
  /\ UNCHANGED it

\* the caller removes a node between two calls of insert
RemoveAtRest == AtRest /\ Remove

InsertAtRest == AtRest /\ Insert

NextInsertSteps ==
  \/ InsertLeafBase
  \/ FixupLoopRecolor
  \/ FixupLoopAscend
  \/ FixupParentBlack
  \/ FixupFoldRotate
  \/ FixupFoldColor
  \/ FixupStraightColor
  \/ FixupFinalRotate
  \/ FixupGrandparentRed
  \/ RemoveAtRest

\* insert(node) statement by statement, and remove(node)
SpecInsertSteps == Init /\ [][NextInsertSteps]_vars

\* the tree at the point where remove_to_leaf has its node at most one
\* child: swapped with its in-order successor if it had two
remove_after_successor_swap(t, node) ==
  IF t.right[node] # NIL /\ t.left[node] # NIL
    THEN swap_nodes(t, node, leftmost(t, t.right[node]), FALSE)
    ELSE t

\* the child of a node that has exactly one, or null
only_child(t, node) ==
  IF t.left[node] # NIL /\ t.right[node] = NIL THEN t.left[node]
  ELSE IF t.left[node] = NIL /\ t.right[node] # NIL THEN t.right[node]
  ELSE NIL

\* the caller removes a linked node, then destroys and re-constructs it, and
\* notes which node was the only child of the removed one, if it had one
\* (child), and whether the removed node had two children at first (swapped)
RemoveNoting ==
  \E n \in Linked :
    /\ SetTree(node_constructed(remove(Tree, n), n))
    /\ lastOp' = [op |-> "remove", bh |-> BlackHeight(Tree, root, NumNodes),
                  mid |-> prev[n] # NIL /\ next[n] # NIL, arg |-> 0,
                  child |-> only_child(remove_after_successor_swap(Tree, n), n),
                  swapped |-> (left[n] # NIL /\ right[n] # NIL)]
    /\ eqOrder' = Struck(eqOrder, n)
    /\ it' = IF it.node = n THEN [node |-> NIL, aged |-> FALSE] ELSE Aged(it)
    /\ inserted' = inserted \ {n}
    /\ UNCHANGED <<key, multiple, hinted, reusable, et>>

NextRemoveNoting == Insert \/ RemoveNoting

\* insert(node) and remove(node), the caller noting the child that takes the
\* place of a removed node
SpecRemoveNoting == Init /\ [][NextRemoveNoting]_vars

(***************************************************************************)
(* swap_nodes on its own                                                   *)
(*                                                                         *)
(* swap_nodes is a member function of the tree that remove_to_leaf calls;  *)
(* in these runs it is applied to any two linked nodes of a tree that      *)
(* insert and remove have built.  The tree is not ordered afterwards, so   *)
(* a run ends with the swap.                                               *)
(***************************************************************************)
InitSwap == InitDup /\ InitTree

\* swap_nodes(n1, n2, swap_colors) on two distinct linked nodes
SwapNodes ==
  \E n1 \in Linked : \E n2 \in Linked \ {n1} : \E swap_colors \in BOOLEAN :
    /\ lastOp.op # "swap_nodes"
    /\ SetTree(swap_nodes(Tree, n1, n2, swap_colors))
    /\ lastOp' = [op |-> "swap_nodes", bh |-> 0, mid |-> FALSE, arg |-> 0,
                  n1 |-> n1, n2 |-> n2, swap_colors |-> swap_colors]
    /\ it' = Aged(it)
    /\ UnchangedBooks

\* insert and remove on a tree no swap was applied to
InsertUnswapped == lastOp.op # "swap_nodes" /\ Insert

RemoveUnswapped == lastOp.op # "swap_nodes" /\ Remove

NextSwap == InsertUnswapped \/ RemoveUnswapped \/ SwapNodes

\* insert(node), remove(node), and at last one call of swap_nodes
SpecSwap == InitSwap /\ [][NextSwap]_vars

(***************************************************************************)
(* remove(Node &) statement by statement: remove_to_leaf up to its call of *)
(* fixup_after_delete, then fixup_after_delete from one rotation or        *)
(* decision to the next.  lastOp holds the locals parent, deleted_left and *)
(* sibling, the passes of the propagate loop and the rotations so far.     *)
(***************************************************************************)
\* remove_to_leaf up to the cut of the leaf and the two hooks behind it
remove_leaf_cut(t, node, p, deleted_left) ==
  Bind(IF deleted_left
         THEN [t EXCEPT !.left[p] = NIL]
         ELSE [t EXCEPT !.right[p] = NIL], LAMBDA a:
  deleted_below(equality_list_delete_node(a, node), p))

\* remove_to_leaf behind the swap with the selected child
remove_swap_to_leaf(t, node) ==
  Bind(remove_select_child(t, node), LAMBDA child:
    IF child # node THEN swap_nodes(t, node, child, FALSE) ELSE t)

\* remove_to_leaf reaches its call of fixup_after_delete: behind the swap
\* with the selected child node is a BLACK leaf below a parent
remove_fixes_up(t, node) ==
  /\ t.right[node] = NIL
  /\ t.parent[node] # NIL
  /\ t.color[node] = BLACK

\* the condition of Case 3, with the sibling already read
delete_propagates(t, p, sibling) ==
  /\ t.color[p] = BLACK
  /\ t.color[sibling] = BLACK
  /\ IsBlackOrNull(t, t.left[sibling])
  /\ IsBlackOrNull(t, t.right[sibling])

\* the condition of Case 4
delete_recolors(t, sibling) ==
  /\ t.color[sibling] = BLACK
  /\ IsBlackOrNull(t, t.left[sibling])
  /\ IsBlackOrNull(t, t.right[sibling])

\* the condition of Case 5: the sibling's far child is BLACK or missing
delete_folded(t, deleted_left, sibling) ==
  IsBlackOrNull(t, IF deleted_left THEN t.right[sibling] ELSE t.left[sibling])

\* the caller's books at a remove of n
RemoveBooks(n) ==
  /\ eqOrder' = Struck(eqOrder, n)
  /\ it' = IF it.node = n THEN [node |-> NIL, aged |-> FALSE] ELSE Aged(it)
  /\ inserted' = inserted \ {n}
  /\ UNCHANGED <<key, multiple, hinted, reusable, et>>

\* remove_to_leaf(node) up to its return or its call of fixup_after_delete
RemoveToLeaf ==
  /\ AtRest
  /\ \E n \in Linked :
    \E s \in {remove_swap_to_leaf(Tree, n)} :
      /\ IF remove_fixes_up(s, n)
           THEN /\ SetTree(node_constructed(
                     remove_leaf_cut(s, n, s.parent[n], s.left[s.parent[n]] = n), n))
                /\ lastOp' = [op |-> "delete_loop",
                              bh |-> BlackHeight(Tree, root, NumNodes),
                              mid |-> prev[n] # NIL /\ next[n] # NIL, arg |-> 0,
                              parent |-> s.parent[n],
                              deleted_left |-> s.left[s.parent[n]] = n,
                              sibling |-> NIL, loops |-> 0, rotations |-> 0]
           ELSE /\ SetTree(node_constructed(remove_pseudo_leaf(s, n), n))
                /\ lastOp' = [op |-> "remove",
                              bh |-> BlackHeight(Tree, root, NumNodes),
                              mid |-> prev[n] # NIL /\ next[n] # NIL, arg |-> 0,
                              parent |-> NIL, deleted_left |-> FALSE,
                              sibling |-> NIL, loops |-> 0, rotations |-> 0]
      /\ RemoveBooks(n)

\* a step inside fixup_after_delete leaves the caller's books alone
InDelete(position) ==
  /\ lastOp.op = position
  /\ UnchangedBooks
  /\ UNCHANGED it

\* fixup_after_delete returns: its locals and the counts kept on it are gone
DeleteReturns(o) ==
  [o EXCEPT !.op = "remove", !.parent = NIL, !.deleted_left = FALSE,
            !.sibling = NIL, !.loops = 0, !.rotations = 0]

\* variant: Case 3 does not move parent up
DeleteLoopPropagate_in_place ==
  /\ InDelete("delete_loop")
  /\ \E sibling \in {sibling_of(Tree, lastOp.parent, lastOp.deleted_left)} :
       /\ delete_propagates(Tree, lastOp.parent, sibling)
       /\ SetTree(delete_recolor_sibling(Tree, sibling))
       /\ lastOp' = IF parent[lastOp.parent] = NIL
                      THEN DeleteReturns([lastOp EXCEPT !.loops = @ + 1])
                      ELSE [lastOp EXCEPT !.sibling = sibling, !.loops = @ + 1]

\* one pass of the while loop that ends in Case 3: the sibling is recolored;
\* at the root the function returns, else parent moves one level up
DeleteLoopPropagate ==
  /\ InDelete("delete_loop")
  /\ \E sibling \in {sibling_of(Tree, lastOp.parent, lastOp.deleted_left)} :
       /\ delete_propagates(Tree, lastOp.parent, sibling)
       /\ SetTree(delete_recolor_sibling(Tree, sibling))
       /\ lastOp' = IF parent[lastOp.parent] = NIL
                      THEN DeleteReturns([lastOp EXCEPT !.loops = @ + 1])
                      ELSE [lastOp EXCEPT !.sibling = sibling, !.loops = @ + 1,
                                          !.deleted_left =
                                            left[parent[lastOp.parent]] = lastOp.parent,
                                          !.parent = parent[lastOp.parent]]

\* the last pass of the while loop and no Case 2: the sibling is not RED
DeleteLoopExit ==
  /\ InDelete("delete_loop")
  /\ \E sibling \in {sibling_of(Tree, lastOp.parent, lastOp.deleted_left)} :
       /\ ~delete_propagates(Tree, lastOp.parent, sibling)
       /\ color[sibling] # RED
       /\ lastOp' = [lastOp EXCEPT !.op = "delete_case4", !.sibling = sibling]
  /\ UnchangedTree

\* the last pass of the while loop and Case 2: the RED sibling is rotated
\* above parent
DeleteRedSibling ==
  /\ InDelete("delete_loop")
  /\ \E sibling \in {sibling_of(Tree, lastOp.parent, lastOp.deleted_left)} :
       /\ ~delete_propagates(Tree, lastOp.parent, sibling)
       /\ color[sibling] = RED
       /\ \E c2 \in {delete_red_sibling(Tree, lastOp.parent, lastOp.deleted_left,
                                        sibling)} :
            /\ SetTree(c2.t)
            /\ lastOp' = [lastOp EXCEPT !.op = "delete_case4",
                                        !.sibling = c2.sibling,
                                        !.rotations = @ + 1]

\* Case 4: parent BLACK, sibling RED, return
DeleteRecolorParent ==
  /\ InDelete("delete_case4")
  /\ delete_recolors(Tree, lastOp.sibling)
  /\ SetTree([Tree EXCEPT !.color[lastOp.parent] = BLACK,
                          !.color[lastOp.sibling] = RED])
  /\ lastOp' = DeleteReturns(lastOp)

\* Case 5, the rotation that unfolds
DeleteFoldRotate ==
  /\ InDelete("delete_case4")
  /\ ~delete_recolors(Tree, lastOp.sibling)
  /\ delete_folded(Tree, lastOp.deleted_left, lastOp.sibling)
  /\ SetTree(IF lastOp.deleted_left THEN rotate_right(Tree, lastOp.sibling)
                                    ELSE rotate_left(Tree, lastOp.sibling))
  /\ lastOp' = [lastOp EXCEPT !.op = "delete_folded", !.rotations = @ + 1]

\* Case 5 behind its rotation: the colors, and the new sibling
DeleteFoldColor ==
  /\ InDelete("delete_folded")
  /\ SetTree([Tree EXCEPT !.color[lastOp.sibling] = RED,
                          !.color[parent[lastOp.sibling]] = BLACK])
  /\ lastOp' = [lastOp EXCEPT !.op = "delete_case6",
                              !.sibling = parent[lastOp.sibling]]

\* Case 6, the rotation of parent
DeleteFinalRotate ==
  /\ \/ InDelete("delete_case6")
     \/ /\ InDelete("delete_case4")
        /\ ~delete_recolors(Tree, lastOp.sibling)
        /\ ~delete_folded(Tree, lastOp.deleted_left, lastOp.sibling)
  /\ SetTree(IF lastOp.deleted_left THEN rotate_left(Tree, lastOp.parent)
                                    ELSE rotate_right(Tree, lastOp.parent))
  /\ lastOp' = [lastOp EXCEPT !.op = "delete_rotated", !.rotations = @ + 1]

\* Case 6 behind its rotation: the colors
DeleteFinalColor ==
  /\ InDelete("delete_rotated")
  /\ SetTree(Bind([Tree EXCEPT !.color[lastOp.parent] = color[lastOp.sibling],
                               !.color[lastOp.sibling] = color[lastOp.parent]],
                  LAMBDA b:
               IF lastOp.deleted_left
                 THEN [b EXCEPT !.color[b.right[lastOp.sibling]] = BLACK]
                 ELSE [b EXCEPT !.color[b.left[lastOp.sibling]] = BLACK]))
  /\ lastOp' = DeleteReturns(lastOp)

NextRemoveSteps ==
  \/ InsertAtRest
  \/ RemoveToLeaf
  \/ DeleteLoopPropagate
  \/ DeleteLoopExit
  \/ DeleteRedSibling
  \/ DeleteRecolorParent
  \/ DeleteFoldRotate
  \/ DeleteFoldColor
  \/ DeleteFinalRotate
  \/ DeleteFinalColor

\* insert(node), and remove(node) statement by statement
SpecRemoveSteps == Init /\ [][NextRemoveSteps]_vars

\* the steps of fixup_after_delete
DeleteSteps ==
  \/ DeleteLoopPropagate
  \/ DeleteLoopExit
  \/ DeleteRedSibling
  \/ DeleteRecolorParent
  \/ DeleteFoldRotate
  \/ DeleteFoldColor
  \/ DeleteFinalRotate
  \/ DeleteFinalColor

\* a call of fixup_after_delete, once begun, runs on
SpecRemoveStepsFair == SpecRemoveSteps /\ WF_vars(DeleteSteps)

NextIntervalSteps ==
  \/ InsertLeafBase
  \/ FixupLoopRecolor
  \/ FixupLoopAscend
  \/ FixupParentBlack
  \/ FixupFoldRotate
  \/ FixupFoldColor
  \/ FixupStraightColor
  \/ FixupFinalRotate
  \/ FixupGrandparentRed
  \/ RemoveToLeaf
  \/ DeleteLoopPropagate
  \/ DeleteLoopExit
  \/ DeleteRedSibling
  \/ DeleteRecolorParent
  \/ DeleteFoldRotate
  \/ DeleteFoldColor
  \/ DeleteFinalRotate
  \/ DeleteFinalColor

\* insert(node) and remove(node) on an IntervalTree, statement by statement
SpecIntervalSteps == InitInterval /\ [][NextIntervalSteps]_vars

(***************************************************************************)
(* rotate_left and rotate_right statement by statement, on an IntervalTree *)
(***************************************************************************)
\* rotate_left(p) up to the call of the hook; the call's position keeps the
\* tree it started from and the nodes whose links it rewrites
RotateLeftLinks ==
  /\ AtRest
  /\ \E p \in Linked :
       /\ right[p] # NIL
       /\ SetTree(rotate_left_links(Tree, p))
       /\ lastOp' = [op |-> "rotate_left", bh |-> 0, mid |-> TRUE, arg |-> p,
                     child |-> right[p], inner |-> left[right[p]],
                     outer |-> left[p], above |-> parent[p], before |-> Tree,
                     hooks |-> <<>>]
  /\ it' = Aged(it)
  /\ UnchangedBooks

RotateRightLinks ==
  /\ AtRest
  /\ \E p \in Linked :
       /\ left[p] # NIL
       /\ SetTree(rotate_right_links(Tree, p))
       /\ lastOp' = [op |-> "rotate_right", bh |-> 0, mid |-> TRUE, arg |-> p,
                     child |-> left[p], inner |-> right[left[p]],
                     outer |-> right[p], above |-> parent[p], before |-> Tree,
                     hooks |-> <<>>]
  /\ it' = Aged(it)
  /\ UnchangedBooks

\* the last statement of rotate_left: NodeTraits::rotated_left(parent)
RotateLeftHook ==
  /\ lastOp.op = "rotate_left"
  /\ SetTree(rotated_left(Tree, lastOp.arg))
  /\ lastOp' = [lastOp EXCEPT !.op = "rotated", !.mid = FALSE,
                              !.hooks = Append(@, <<"rotated_left", lastOp.arg>>)]
  /\ UNCHANGED it
  /\ UnchangedBooks

\* the last statement of rotate_right: NodeTraits::rotated_right(parent)
RotateRightHook ==
  /\ lastOp.op = "rotate_right"
  /\ SetTree(rotated_right(Tree, lastOp.arg))
  /\ lastOp' = [lastOp EXCEPT !.op = "rotated", !.mid = FALSE,
                              !.hooks = Append(@, <<"rotated_right", lastOp.arg>>)]
  /\ UNCHANGED it
  /\ UnchangedBooks

NextRotate ==
  \/ InsertAtRest
  \/ RemoveAtRest
  \/ RotateLeftLinks
  \/ RotateRightLinks
  \/ RotateLeftHook
  \/ RotateRightHook

SpecRotate == InitInterval /\ [][NextRotate]_vars

\* the nodes reachable from the root of the Energy tree
EtLinked == Below(et, et.root, NumEtNodes)

(***************************************************************************)
(* Derived notions used by the properties                                  *)
(***************************************************************************)
\* in-order sequence of the subtree at n; d bounds the depth
RECURSIVE InOrderIn(_, _, _)
InOrderIn(t, n, d) ==
  IF n = NIL \/ d = 0 THEN <<>>
  ELSE InOrderIn(t, t.left[n], d - 1) \o <<n>> \o InOrderIn(t, t.right[n], d - 1)

InOrder == InOrderIn(Tree, root, NumNodes)

SortedSeq(s) == \A i, j \in 1..Len(s) : i < j => ~Cmp(s[j], s[i])

\* the parent slots (node, side) that hold n
SlotsOf(n) == {<<m, "L">> : m \in {x \in Linked : left[x] = n}}
                \cup {<<m, "R">> : m \in {x \in Linked : right[x] = n}}

ChainHead(n) == equality_list_find_first(Tree, n)

\* the tree in the next state
TreeNext == [root |-> root', left |-> left', right |-> right', parent |-> parent',
             color |-> color', prev |-> prev', next |-> next',
             max_upper |-> max_upper']

\* this step is the call insert(n), read off the caller's books
IsInsertOf(n) ==
  /\ lastOp'.op = "insert"
  /\ n \notin inserted
  /\ inserted' = inserted \cup {n}

\* this step is the call remove(n)
IsRemoveOf(n) ==
  /\ lastOp'.op = "remove"
  /\ n \in inserted
  /\ inserted' = inserted \ {n}

\* all tree fields of node m are the same in the next state
NodeUntouched(m) ==
  /\ left'[m] = left[m]
  /\ right'[m] = right[m]
  /\ parent'[m] = parent[m]
  /\ color'[m] = color[m]

(***************************************************************************)
(* Properties                                                              *)
(***************************************************************************)

\* C1: after any sequence of un-hinted insert and remove calls the in-order
\* traversal is non-decreasing under the comparator.
InOrderSorted == SortedSeq(InOrder)

\* a tree of at least five nodes holding two equal keys, just after a remove
InOrderSortedWitness ==
  /\ lastOp.op = "remove"
  /\ Len(InOrder) >= 5
  /\ \E i \in 1..(Len(InOrder) - 1) : Equal(InOrder[i], InOrder[i + 1])

\* C2: after any sequence of insert and remove calls no RED node has a RED
\* child.
NoRedRed ==
  \A n \in Linked :
    color[n] = RED => IsBlackOrNull(Tree, left[n]) /\ IsBlackOrNull(Tree, right[n])

\* a RED node with a child, in a tree of at least five nodes after a remove
NoRedRedWitness ==
  /\ lastOp.op = "remove"
  /\ Cardinality(Linked) >= 5
  /\ \E n \in Linked : color[n] = RED /\ left[n] # NIL /\ right[n] # NIL

\* C3: every path from the root to a null child link crosses the same number
\* of BLACK nodes.
BlackPathsEqual == BlackHeight(Tree, root, NumNodes) # -1

\* a remove has lowered the black-height of the whole tree from 3 to 2: the
\* deficit of a removed BLACK leaf was propagated up to the root
BlackPathsEqualWitness ==
  /\ lastOp.op = "remove"
  /\ lastOp.bh = 3
  /\ BlackHeight(Tree, root, NumNodes) = 2

\* C4: after every completed insert or remove the tree is empty or its root
\* is BLACK.
RootBlack == root = NIL \/ color[root] = BLACK

\* the root has two RED children and the last call was an insert
RootBlackWitness ==
  /\ lastOp.op = "insert"
  /\ root # NIL /\ color[root] = BLACK
  /\ left[root] # NIL /\ color[left[root]] = RED
  /\ right[root] # NIL /\ color[right[root]] = RED
  /\ Cardinality(Linked) >= 7

\* C5: the links form a proper tree: the root has no parent, every child
\* points back to its parent, and every linked node other than the root sits
\* in exactly one child slot (the root in none).
ProperTree ==
  /\ root # NIL => parent[root] = NIL
  /\ \A n \in Linked :
       /\ left[n] # NIL => parent[left[n]] = n
       /\ right[n] # NIL => parent[right[n]] = n
       /\ Cardinality(SlotsOf(n)) = IF n = root THEN 0 ELSE 1

\* a perfect tree of seven nodes, three levels deep, just after an insert
ProperTreeWitness ==
  /\ lastOp.op = "insert"
  /\ Cardinality(Linked) = 7
  /\ inserted = Linked
  /\ \A n \in Linked : parent[n] # NIL => parent[parent[n]] = NIL \/ parent[parent[parent[n]]] = NIL

\* C6: with MULTIPLE, insert(x) adds exactly x to the linked nodes and
\* remove(x) takes exactly x away, also when other nodes compare equal to x.
MembershipExact ==
  [][multiple =>
       \A x \in Nodes :
         /\ IsInsertOf(x) => LinkedIn(TreeNext) = Linked \cup {x}
         /\ IsRemoveOf(x) => LinkedIn(TreeNext) = Linked \ {x}]_vars

\* a remove has left every node of the run linked but one, and two linked
\* nodes compare equal to that one: it is the node that was removed
MembershipExactWitness ==
  /\ multiple
  /\ lastOp.op = "remove"
  /\ \E x \in Pool :
       /\ Linked = Pool \ {x}
       /\ Cardinality({m \in Linked : Equal(m, x)}) = 2

\* C7: when every node that was inserted has been removed again, the tree is
\* empty: the root is null and begin() = end().
RoundTripEmpty == inserted = {} => root = NIL /\ get_smallest(Tree) = NIL

\* the last inserted node has just been removed
RoundTripEmptyWitness ==
  /\ lastOp.op = "remove"
  /\ inserted = {}

\* C8: without MULTIPLE, insert(node) is a no-op when a linked node compares
\* equal to the new node: nothing is linked and the tree is unchanged.
DuplicateInsertIsNoOp ==
  [][\A x \in Nodes :
       (/\ ~multiple
        /\ IsInsertOf(x)
        /\ \E m \in Linked : Equal(m, x))
       => /\ root' = root
          /\ LinkedIn(TreeNext) = Linked
          /\ \A m \in Linked : NodeUntouched(m)]_vars

\* C9: after insert(node, hint) with any linked hint the in-order traversal
\* of a sorted tree is still non-decreasing.
HintedInsertKeepsOrder ==
  [][(lastOp'.op = "insert_hint" /\ SortedSeq(InOrder))
     => SortedSeq(InOrderIn(TreeNext, root', NumNodes))]_vars

\* C10: with MULTIPLE, all linked nodes that compare equal are in one
\* equality chain: equality_list_find_first gives the same head for them.
SingleChainPerKey ==
  multiple => \A a, b \in Linked : Equal(a, b) => ChainHead(a) = ChainHead(b)

\* the walk along _rbt_next from n ends at a null link within fuel steps
RECURSIVE ChainEnds(_, _)
ChainEnds(n, fuel) ==
  IF n = NIL THEN TRUE
  ELSE IF fuel = 0 THEN FALSE
  ELSE ChainEnds(next[n], fuel - 1)

\* C11: with MULTIPLE, the equality chain links of linked nodes are
\* reciprocal, acyclic and refer to linked nodes only.
ChainReciprocal ==
  multiple =>
    \A n \in Linked :
      /\ next[n] # NIL => next[n] \in Linked /\ prev[next[n]] = n
      /\ prev[n] # NIL => prev[n] \in Linked /\ next[prev[n]] = n
      /\ ChainEnds(n, NumNodes)

\* the middle node of a chain of three was removed: a chain of two remains
ChainReciprocalWitness ==
  /\ multiple
  /\ lastOp.op = "remove"
  /\ lastOp.mid
  /\ \E a, b \in Linked : \E x \in Pool \ Linked :
       /\ Equal(a, x) /\ Equal(b, x)
       /\ Linked = Pool \ {x}
       /\ next[a] = b /\ prev[b] = a /\ prev[a] = NIL /\ next[b] = NIL

\* the place of node n in the in-order sequence (0 if it is not in it)
PlaceOf(n) ==
  IF \E i \in 1..Len(InOrder) : InOrder[i] = n
    THEN CHOOSE i \in 1..Len(InOrder) : InOrder[i] = n
    ELSE 0

\* C12: with MULTIPLE, forward in-order iteration yields nodes with equal
\* keys in the order in which they were inserted.
EqualInInsertionOrder ==
  multiple =>
    \A i, j \in 1..Len(eqOrder) :
      (i < j /\ Equal(eqOrder[i], eqOrder[j]))
        => PlaceOf(eqOrder[i]) < PlaceOf(eqOrder[j])

\* C12 as amended: with MULTIPLE, forward in-order iteration yields nodes
\* with equal keys in the reverse of the order in which they were inserted
\* (the node inserted last comes first).
EqualInReverseInsertionOrder ==
  multiple =>
    \A i, j \in 1..Len(eqOrder) :
      (i < j /\ Equal(eqOrder[i], eqOrder[j]))
        => /\ PlaceOf(eqOrder[j]) # 0
           /\ PlaceOf(eqOrder[j]) < PlaceOf(eqOrder[i])

\* three nodes with equal keys are linked, the last of them put in after a
\* remove of one with that key (the notes do not follow the node numbers)
EqualInReverseInsertionOrderWitness ==
  /\ multiple
  /\ lastOp.op = "insert"
  /\ Len(eqOrder) = 3
  /\ eqOrder[1] > eqOrder[2]
  /\ Cardinality(Linked) >= 5

\* the first node of the in-order sequence, from place i on, that is
\* strictly greater than the query (NIL if there is none)
RECURSIVE FirstGreaterFrom(_, _)
FirstGreaterFrom(query, i) ==
  IF i > Len(InOrder) THEN NIL
  ELSE IF query < key[InOrder[i]] THEN InOrder[i]
  ELSE FirstGreaterFrom(query, i + 1)

\* the in-order successor of linked node n (NIL if n is the last)
SuccOf(n) == IF PlaceOf(n) = Len(InOrder) THEN NIL ELSE InOrder[PlaceOf(n) + 1]

\* the in-order predecessor of linked node n (NIL if n is the first)
PredOf(n) == IF PlaceOf(n) = 1 THEN NIL ELSE InOrder[PlaceOf(n) - 1]

\* C13: find(key) returns end() if and only if no linked node compares equal
\* to key; otherwise it returns a linked node that compares equal to key and
\* has no predecessor in its equality chain.
FindReturnsChainHead ==
  [][lastOp'.op = "find" =>
       IF \E m \in Linked : key[m] = lastOp'.arg
         THEN /\ it'.node \in Linked
              /\ key[it'.node] = lastOp'.arg
              /\ prev[it'.node] = NIL
         ELSE it'.node = NIL]_vars

\* find has returned the head of a chain of two, which is a child of the
\* other node of the chain: the descent of find has hit the other node
FindReturnsChainHeadWitness ==
  /\ lastOp.op = "find"
  /\ multiple
  /\ it.node # NIL
  /\ next[it.node] # NIL
  /\ parent[it.node] = next[it.node]

\* C14: upper_bound(key) returns the first node in in-order that is strictly
\* greater than key, or end() if there is none.
UpperBoundFirstGreater ==
  [][lastOp'.op = "upper_bound" => it'.node = FirstGreaterFrom(lastOp'.arg, 1)]_vars

\* C15: an iterator to a linked node stays valid across inserts and removes
\* of other nodes: incrementing it yields the node's in-order successor in
\* the current tree (end() if it is the last), decrementing its predecessor.
IteratorStepsInOrder ==
  [][/\ lastOp'.op = "increment" => it'.node = SuccOf(it.node)
     /\ lastOp'.op = "decrement" => it'.node = PredOf(it.node)]_vars

\* an iterator obtained before an insert or remove was incremented and now
\* refers to a node with a left child: the step has climbed to an ancestor
IteratorStepsInOrderWitness ==
  /\ lastOp.op = "increment"
  /\ it.aged
  /\ it.node # NIL
  /\ left[it.node] # NIL
  /\ Cardinality(Linked) >= 5

\* the Red-Black invariants together
RedBlackInvariants ==
  /\ RootBlack
  /\ NoRedRed
  /\ BlackPathsEqual
  /\ InOrderSorted
  /\ ProperTree
  /\ ChainReciprocal
  /\ SingleChainPerKey

\* C16: verify_integrity returns true only when all Red-Black invariants
\* hold (root black, no red-red, equal black-height, non-decreasing in-order,
\* parent/child reciprocity, one reciprocal acyclic chain per run of equal
\* keys), and false whenever one of them fails.
VerifyIntegrityComplete == verify_integrity(Tree) <=> RedBlackInvariants


\* this step is the call insert(n, end())
IsInsertEndOf(n) ==
  /\ lastOp'.op = "insert_end"
  /\ n \notin inserted
  /\ inserted' = inserted \cup {n}

\* the last element of a non-empty sequence
Last(s) == s[Len(s)]

\* C17: insert(node, end()) with a node whose key is not smaller than any key
\* in the tree makes the node the last element of the in-order sequence,
\* behind every node that compares equal to it, and rbegin() refers to it.
EndHintAppends ==
  [][\A x \in Nodes :
       (/\ multiple
        /\ IsInsertEndOf(x)
        /\ SortedSeq(InOrder)
        /\ \A m \in Linked : ~Cmp(x, m))
       => /\ Last(InOrderIn(TreeNext, root', NumNodes)) = x
          /\ crbegin(TreeNext) = x]_vars


\* this step is the call insert(n) on a node n that was linked before, was
\* removed, and is passed as remove() left it
IsReinsertOf(n) == n \in reusable /\ IsInsertOf(n)

\* how often n occurs in the in-order sequence of the next state
OccurrencesNext(n) ==
  Cardinality({i \in 1..NumNodes :
                 /\ i <= Len(InOrderIn(TreeNext, root', NumNodes))
                 /\ InOrderIn(TreeNext, root', NumNodes)[i] = n})

\* the fields remove() left in n have no influence on insert(n): the result
\* is the one for a freshly constructed node, and n is linked exactly once
StaleFieldsIgnored ==
  [][\A x \in Nodes :
       (/\ IsReinsertOf(x)
        /\ RedBlackInvariants
        /\ (multiple \/ \A m \in Linked : ~Equal(m, x)))
       => /\ TreeNext = insert(node_constructed(Tree, x), x)
          /\ OccurrencesNext(x) = 1]_vars

\* C18: a node that was linked and then removed can be inserted again, with
\* the same or a changed key, as remove() left it: its stale fields do not
\* influence the result, the tree then contains the node exactly once and all
\* Red-Black invariants hold.
ReuseWithoutReinitialisation ==
  [][\A x \in Nodes :
       (/\ IsReinsertOf(x)
        /\ RedBlackInvariants
        /\ (multiple \/ \A m \in Linked : ~Equal(m, x)))
       => /\ TreeNext = insert(node_constructed(Tree, x), x)
          /\ OccurrencesNext(x) = 1
          /\ RedBlackInvariants']_vars


\* C19: after any sequence of insert and remove calls on the Energy tree,
\* every linked node n has size(n) = 1 + size(left(n)) + size(right(n)),
\* with a null child counting 0.
EtSizesConsistent ==
  et.fault = "none" =>
    \A n \in EtLinked :
      et.size[n] = 1 + et_child_size(et, et.left[n]) + et_child_size(et, et.right[n])

\* C20: after every insert or remove on the Energy tree that returned, every
\* linked node n has energy(n) <= 0.5 * size(n).
EtNotOvercharged ==
  et.fault = "none" => \A n \in EtLinked : ~Overcharged(et, n)

\* this step is the Energy tree call insert(n), read off the caller's books
IsEtInsertOf(n) ==
  /\ lastOp'.op = "et_insert"
  /\ n \notin inserted
  /\ inserted' = inserted \cup {n}

\* this step is the Energy tree call remove(n)
IsEtRemoveOf(n) ==
  /\ lastOp'.op = "et_remove"
  /\ n \in inserted
  /\ inserted' = inserted \ {n}

\* the tree and rebuild_at with which insert(node) reaches its call of
\* rebuild_below
EtInsertBeforeRebuild(e0, node) ==
  IF e0.root = NIL THEN [e |-> e0, rebuild_at |-> NIL]
  ELSE et_insert_descend([e0 EXCEPT !.size[node] = 1, !.energy[node] = 0,
                                    !.left[node] = NIL, !.right[node] = NIL],
                         node, e0.root, NIL, EtFuel)

\* the tree and rebuild_at with which remove(node) reaches its call of
\* rebuild_below
EtRemoveBeforeRebuild(e0, node) ==
  Bind(et_remove_ascend(e0, node, NIL, EtFuel), LAMBDA a:
    IF a.e.fault # "none" THEN a
    ELSE IF a.e.left[node] = NIL /\ a.e.right[node] = NIL
      THEN [e |-> et_remove_leaf(a.e, node), rebuild_at |-> a.rebuild_at]
    ELSE et_remove_inner(a.e, node, a.rebuild_at, a.rebuild_at # NIL))

\* the nodes below the root form a binary tree with reciprocal links and
\* every size is the number of nodes of the subtree
EtWellFormed(e) ==
  /\ e.fault = "none"
  /\ e.root # NIL => e.parent[e.root] = NIL
  /\ Len(InOrderIn(e, e.root, NumEtNodes + 1)) = Cardinality(Below(e, e.root, NumEtNodes))
  /\ \A x \in Below(e, e.root, NumEtNodes) :
       /\ e.left[x] # NIL => e.parent[e.left[x]] = x
       /\ e.right[x] # NIL => e.parent[e.right[x]] = x
       /\ e.size[x] = Cardinality(Below(e, x, NumEtNodes))

\* the number of levels of the subtree at n; d bounds the depth
RECURSIVE EtHeight(_, _, _)
EtHeight(e, n, d) ==
  IF n = NIL \/ d = 0 THEN 0
  ELSE 1 + (IF EtHeight(e, e.left[n], d - 1) >= EtHeight(e, e.right[n], d - 1)
              THEN EtHeight(e, e.left[n], d - 1)
              ELSE EtHeight(e, e.right[n], d - 1))

\* the first d levels of the subtree at n are full
RECURSIVE EtFullTo(_, _, _)
EtFullTo(e, n, d) ==
  d <= 0 \/ (n # NIL /\ EtFullTo(e, e.left[n], d - 1) /\ EtFullTo(e, e.right[n], d - 1))

\* the node found in tree a where node was in tree b
EtAtPositionOf(b, node, a) ==
  IF b.parent[node] = NIL THEN a.root
  ELSE IF b.left[b.parent[node]] = node THEN a.left[b.parent[node]]
  ELSE a.right[b.parent[node]]

\* what rebuild_below(node), called on tree b, is to leave in tree a
RebuildPost(b, node, a) ==
  Bind(EtAtPositionOf(b, node, a), LAMBDA top:
    /\ a.fault = "none"
    /\ top # NIL
    /\ InOrderIn(a, top, NumEtNodes + 1) = InOrderIn(b, node, NumEtNodes + 1)
    /\ EtHeight(a, top, NumEtNodes + 1) = CeilLog2(b.size[node] + 1)
    /\ EtFullTo(a, top, CeilLog2(b.size[node] + 1) - 1)
    /\ a.parent[top] = b.parent[node]
    /\ \A x \in Below(a, top, NumEtNodes) :
         /\ a.left[x] # NIL => a.parent[a.left[x]] = x
         /\ a.right[x] # NIL => a.parent[a.right[x]] = x
         /\ a.size[x] = Cardinality(Below(a, x, NumEtNodes))
    /\ a.energy[top] = 0)

\* a call that reaches rebuild_below with the well-formed tree r.e leaves
\* the rebuilt subtree in tree a
RebuildHolds(r, a) ==
  (EtWellFormed(r.e) /\ r.rebuild_at # NIL) => RebuildPost(r.e, r.rebuild_at, a)

\* C21: a rebuild of a subtree of any size m >= 1 leaves the same nodes in
\* the same in-order sequence, as a complete binary tree of height
\* ceil(log2(m + 1)) attached at the original position with reciprocal
\* links, every size the number of nodes of its subtree, and energy 0 at the
\* subtree's root.
RebuildPostcondition ==
  [][\A n \in ENodes :
       /\ (IsEtInsertOf(n) /\ EtWellFormed(et)) =>
            RebuildHolds(EtInsertBeforeRebuild(et, n), et')
       /\ (IsEtRemoveOf(n) /\ EtWellFormed(et)) =>
            RebuildHolds(EtRemoveBeforeRebuild(et, n), et')]_vars

\* the tree after insert(1), ..., insert(k) on an empty tree
RECURSIVE EtAscending(_)
EtAscending(k) ==
  IF k = 0 THEN EtEmpty
  ELSE EtOutcome(EtAscending(k - 1), et_insert(EtAscending(k - 1), k))

\* n = 2^k - 1 with k >= 2
FullTreeSize(n) == n >= 3 /\ Pow2(CeilLog2(n + 1)) = n + 1

\* tree e is a perfectly balanced tree of the keys 1..n without energy at
\* its root, every size the number of nodes of the subtree
EtPerfect(e, n) ==
  /\ e.fault = "none"
  /\ EtHeight(e, e.root, NumEtNodes + 1) = CeilLog2(n + 1)
  /\ EtFullTo(e, e.root, CeilLog2(n + 1))
  /\ e.energy[e.root] = 0
  /\ InOrderIn(e, e.root, NumEtNodes + 1) = [i \in 1..n |-> i]
  /\ \A x \in Below(e, e.root, NumEtNodes) :
       e.size[x] = Cardinality(Below(e, x, NumEtNodes))

RECURSIVE SeqWithout(_, _)
SeqWithout(s, x) ==
  IF s = <<>> THEN <<>>
  ELSE IF Head(s) = x THEN SeqWithout(Tail(s), x)
  ELSE <<Head(s)>> \o SeqWithout(Tail(s), x)

\* C23: for any linked node x, after remove(x) on the Energy tree the nodes
\* reachable from the root are the previous ones without x, in the previous
\* in-order sequence with x deleted, and the children of every reachable
\* node point back to it through their parent link.
EtRemoveUnlinksOnlyX ==
  [][\A x \in ENodes :
       (IsEtRemoveOf(x) /\ EtWellFormed(et) /\ x \in EtLinked) =>
         /\ et'.fault = "none"
         /\ Below(et', et'.root, NumEtNodes) = EtLinked \ {x}
         /\ InOrderIn(et', et'.root, NumEtNodes + 1)
              = SeqWithout(InOrderIn(et, et.root, NumEtNodes + 1), x)
         /\ \A m \in Below(et', et'.root, NumEtNodes) :
              /\ et'.left[m] # NIL => et'.parent[et'.left[m]] = m
              /\ et'.right[m] # NIL => et'.parent[et'.right[m]] = m]_vars

\* C24: inserting all nodes of a set in any order and then removing all of
\* them in any order completes without fault and leaves the Energy tree
\* empty.
RoundTripLeavesEmpty ==
  /\ et.fault = "none"
  /\ (lastOp.op = "et_drain" /\ inserted = {}) => et_empty(et)

\* the largest upper endpoint in the subtree at n; d bounds the depth
RECURSIVE MaxUpperBelow(_, _, _)
MaxUpperBelow(t, n, d) ==
  IF n = NIL \/ d = 0 THEN 0
  ELSE Max(get_upper(n), Max(MaxUpperBelow(t, t.left[n], d - 1),
                             MaxUpperBelow(t, t.right[n], d - 1)))

QueryCursorMayOverlap ==
  lastOp.op = "query" =>
    \A i \in 1..Len(lastOp.steps) :
      lastOp.steps[i] = NIL \/ max_upper[lastOp.steps[i]] > q_lower(lastOp.arg)


\* a call of insert is in progress (statement-by-statement runs)
InCall == lastOp.op \in {"fixup", "ascend", "folded", "final", "rotated"}

\* the same links, whatever the colors
SameShape(t, u) ==
  /\ t.root = u.root
  /\ t.left = u.left
  /\ t.right = u.right
  /\ t.parent = u.parent

\* C28: insert performs at most two rotations per call: the loop over the
\* uncle-is-red case only recolors while the cursor moves two levels up per
\* iteration, and behind the loop there is at most one rotation (straight)
\* or one pair of rotations (folded).  Every step of fixup_after_insert that
\* changes a link is counted as a rotation; one rotation lifts the parent
\* above cursor and grandparent, the pair lifts the cursor above both.
InsertRotatesAtMostTwice ==
  [][InCall =>
       /\ lastOp'.rotations =
            lastOp.rotations + (IF SameShape(Tree, TreeNext) THEN 0 ELSE 1)
       /\ lastOp'.rotations <= 2
       /\ lastOp'.loops > lastOp.loops \/ lastOp.op = "ascend" =>
            /\ SameShape(Tree, TreeNext)
            /\ lastOp.rotations = 0
       /\ lastOp.op = "ascend" => lastOp'.node = parent[parent[lastOp.node]]
       /\ lastOp'.op = "rotated" /\ lastOp'.rotations = 1 =>
            /\ parent'[lastOp'.node] = lastOp'.parent
            /\ parent'[lastOp'.grandparent] = lastOp'.parent
       /\ lastOp'.op = "rotated" /\ lastOp'.rotations = 2 =>
            /\ parent'[lastOp'.parent] = lastOp'.node
            /\ parent'[lastOp'.grandparent] = lastOp'.node]_vars

\* a call has returned after an iteration of the loop and a pair of rotations
InsertRotatesAtMostTwiceWitness ==
  /\ lastOp.op = "insert"
  /\ lastOp.loops >= 1
  /\ lastOp.rotations = 2

\* C29: during insert, at every intermediate step of the fix-up as well as
\* in the final state, the node that is the root at that moment is not RED.
RootNeverRedDuringInsert ==
  InCall \/ lastOp.op = "insert" => root = NIL \/ color[root] = BLACK

\* in the middle of a call: the loop has moved the cursor up and the last
\* rotation has just made another node the root; the old root, now its
\* child, is not yet RED
RootNeverRedDuringInsertWitness ==
  /\ lastOp.op = "rotated"
  /\ lastOp.loops >= 1
  /\ parent[lastOp.grandparent] = root
  /\ color[lastOp.grandparent] = BLACK


\* the link v after node c has taken the place of node x
Replaced(v, x, c) == IF v = x THEN c ELSE v

\* remove(x) has put the only child c of x into the place x has in tree u,
\* colored it BLACK and taken x out of its equality chain; no other tree link
\* or color of a linked node differs from u
ChildPromoted(u, x, c) ==
  /\ root' = Replaced(u.root, x, c)
  /\ parent'[c] = u.parent[x]
  /\ left'[c] = NIL
  /\ right'[c] = NIL
  /\ color'[c] = BLACK
  /\ \A m \in LinkedIn(u) \ {x, c} :
       /\ left'[m] = Replaced(u.left[m], x, c)
       /\ right'[m] = Replaced(u.right[m], x, c)
       /\ parent'[m] = u.parent[m]
       /\ color'[m] = u.color[m]
  /\ \A m \in LinkedIn(u) \ {x} : next'[m] # x /\ prev'[m] # x

\* C30: in every reachable tree, when the node to be removed (after the swap
\* with its in-order successor, if it had two children) has exactly one
\* child, that child is a RED leaf and the node is BLACK; remove puts the
\* child into the node's position, colors it BLACK, detaches the node from
\* its equality chain, and makes no rotation and no other recoloring.
RemoveOneChildPromotes ==
  [][\A x \in Nodes :
       IsRemoveOf(x) =>
         Bind(remove_after_successor_swap(Tree, x), LAMBDA u:
         Bind(only_child(u, x), LAMBDA c:
           c # NIL =>
             /\ u.color[c] = RED
             /\ u.left[c] = NIL
             /\ u.right[c] = NIL
             /\ u.color[x] = BLACK
             /\ ChildPromoted(u, x, c)))]_vars

\* a remove of a node with two children has returned; after the swap with
\* its successor the node had one child, which is linked and not the root
RemoveOneChildPromotesWitness ==
  /\ lastOp.op = "remove"
  /\ lastOp.swapped
  /\ lastOp.child # NIL
  /\ lastOp.child \in Linked
  /\ parent[lastOp.child] # NIL
  /\ Cardinality(Linked) >= 6


\* this step is a call of swap_nodes
IsSwap == lastOp'.op = "swap_nodes"

Exchanged(v, a, b) == IF v = a THEN b ELSE IF v = b THEN a ELSE v

\* C38: for any two distinct linked nodes n1 and n2 (parent and child, child
\* and parent, siblings, or unrelated) swap_nodes makes each node occupy the
\* other's former tree position (parent slot, left subtree, right subtree),
\* updates the root link if one of them was the root, and leaves all
\* parent / child links reciprocal: the links afterwards are the links
\* before with n1 and n2 exchanged everywhere.
SwapExchangesPositions ==
  [][IsSwap =>
       Bind(lastOp'.n1, LAMBDA n1:
       Bind(lastOp'.n2, LAMBDA n2:
         /\ root' = Exchanged(root, n1, n2)
         /\ \A m \in Linked :
              /\ left'[Exchanged(m, n1, n2)] = Exchanged(left[m], n1, n2)
              /\ right'[Exchanged(m, n1, n2)] = Exchanged(right[m], n1, n2)
              /\ parent'[Exchanged(m, n1, n2)] = Exchanged(parent[m], n1, n2)))]_vars


\* this step is a call of insert(n) or insert(n, end())
IsLinkOf(n) ==
  /\ lastOp'.op \in {"insert", "insert_end"}
  /\ n \notin inserted
  /\ inserted' = inserted \cup {n}

\* the node the descent of insert_leaf_base started at in this step
DescentStart ==
  IF lastOp'.op = "insert" \/ root = NIL THEN root ELSE rightmost(Tree, root)

\* C32: with MULTIPLE, a node linked as a child of a parent that compares
\* equal is spliced into the chain directly before that parent by a
\* left-biased insert (next_eq(node) = parent) and directly after it by a
\* right-biased insert (prev_eq(node) = parent); linked under a strictly
\* smaller or greater parent it starts a singleton chain.
ChainSpliceDirection ==
  [][multiple =>
       \A n \in Nodes :
         IsLinkOf(n) =>
           Bind(insert_descend(Tree, n, DescentStart, DescentStart), LAMBDA p:
             p # NIL =>
               /\ Equal(n, p) /\ lastOp'.op = "insert" => next'[n] = p
               /\ Equal(n, p) /\ lastOp'.op = "insert_end" => prev'[n] = p
               /\ ~Equal(n, p) => next'[n] = NIL /\ prev'[n] = NIL)]_vars

\* every child link of t is answered by the child's parent link, and the
\* root has no parent
Reciprocal(t) ==
  /\ t.root # NIL => t.parent[t.root] = NIL
  /\ \A m \in LinkedIn(t) :
       /\ t.left[m] # NIL => t.parent[t.left[m]] = m
       /\ t.right[m] # NIL => t.parent[t.right[m]] = m

\* the links of the rotation of p noted in o are all in place in t
RotationLinked(t, o) ==
  /\ t.parent[o.arg] = o.child
  /\ t.parent[o.child] = o.above
  /\ IF o.above = NIL THEN t.root = o.child
     ELSE IF o.before.left[o.above] = o.arg THEN t.left[o.above] = o.child
     ELSE t.right[o.above] = o.child
  /\ o.inner # NIL => t.parent[o.inner] = o.arg
  /\ IF o.op = "rotate_left"
     THEN t.left[o.child] = o.arg /\ t.right[o.arg] = o.inner /\ t.left[o.arg] = o.outer
     ELSE t.right[o.child] = o.arg /\ t.left[o.arg] = o.inner /\ t.right[o.arg] = o.outer
  /\ Reciprocal(t)

\* C33: every rotate_left(p) / rotate_right(p) calls exactly one hook,
\* rotated_left(p) / rotated_right(p), with the former parent p as argument,
\* and only once all links of the rotation are in place: when the hook runs,
\* p's parent is its former child, p's children are its final children, and
\* the links involved, the root link included, are reciprocal.
RotationHookOrdering ==
  [][/\ lastOp'.op \in {"rotate_left", "rotate_right"} =>
          RotationLinked(TreeNext, lastOp')
     /\ lastOp.op \in {"rotate_left", "rotate_right"} =>
          /\ lastOp'.op = "rotated"
          /\ lastOp'.hooks = <<IF lastOp.op = "rotate_left"
                               THEN <<"rotated_left", lastOp.arg>>
                               ELSE <<"rotated_right", lastOp.arg>> >>
          /\ TreeNext = (IF lastOp.op = "rotate_left"
                         THEN rotate_left(lastOp.before, lastOp.arg)
                         ELSE rotate_right(lastOp.before, lastOp.arg))
          /\ \A m \in Nodes : /\ left'[m] = left[m] /\ right'[m] = right[m]
                              /\ parent'[m] = parent[m]
          /\ root' = root]_vars

\* the hook of a rotation of the root has run: a subtree changed sides and
\* the hook lowered the maximum of the node that went down
RotationHookOrderingWitness ==
  /\ lastOp.op = "rotated"
  /\ lastOp.above = NIL
  /\ lastOp.inner # NIL
  /\ root = lastOp.child
  /\ max_upper[lastOp.arg] < lastOp.before.max_upper[lastOp.arg]

\* the 0-based place of n in the sequence s; Len(s) for end()
PlaceIn(s, n) ==
  IF n = NIL THEN Len(s) ELSE CHOOSE i \in 0..(Len(s) - 1) : s[i + 1] = n

\* the node at the 0-based place i of s; end() at Len(s)
AtPlace(s, i) == IF i = Len(s) THEN NIL ELSE s[i + 1]

\* C37: for an iterator at the i-th in-order node of a tree with n nodes and
\* any k with i + k <= n, it += k (and it + k) ends after exactly k single
\* steps and leaves the iterator at the (i+k)-th in-order node, end() when
\* i + k = n.
AdvanceByCount ==
  [][/\ lastOp'.op \in {"plus_assign", "plus"}
     /\ PlaceIn(InOrder, it.node) + lastOp'.arg <= Len(InOrder)
     => /\ ~lastOp'.null_read
        /\ lastOp'.done = lastOp'.arg
        /\ lastOp'.result = AtPlace(InOrder, PlaceIn(InOrder, it.node) + lastOp'.arg)]_vars

\* the number of parent links between x and the root of e
RECURSIVE EtDepth(_, _, _)
EtDepth(e, x, fuel) ==
  IF e.parent[x] = NIL \/ fuel = 0 THEN 0 ELSE 1 + EtDepth(e, e.parent[x], fuel - 1)

\* the linked nodes of e1 whose size or energy a call changed from e0 and
\* which are overcharged in e1
ChangedOvercharged(e0, e1) ==
  {x \in Below(e1, e1.root, NumEtNodes) :
     /\ e1.size[x] # e0.size[x] \/ e1.energy[x] # e0.energy[x]
     /\ Overcharged(e1, x)}

\* the call that went from e0 to r.e chose the shallowest changed node that
\* is overcharged for its rebuild, and none if there is none
RebuildChosen(e0, r) ==
  r.e.fault = "none" =>
    IF ChangedOvercharged(e0, r.e) = {} THEN r.rebuild_at = NIL
    ELSE /\ r.rebuild_at \in ChangedOvercharged(e0, r.e)
         /\ \A y \in ChangedOvercharged(e0, r.e) :
              EtDepth(r.e, r.rebuild_at, NumEtNodes) <= EtDepth(r.e, y, NumEtNodes)

\* what the call that went from e0 to r.e returns: the tree rebuilt once
\* below the chosen node, after the mutation
RebuiltOnce(r) ==
  IF r.e.fault # "none" \/ r.rebuild_at = NIL THEN r.e ELSE rebuild_below(r.e, r.rebuild_at)

\* C35: a single insert or remove of the Energy tree performs at most one
\* rebuild, only after the structural mutation is complete, rooted at the
\* shallowest node, among all nodes whose size/energy counters this call
\* changed, that is overcharged after the change; if no such node is
\* overcharged there is no rebuild.
EtRebuildTrigger ==
  [][\A n \in ENodes :
       /\ IsEtInsertOf(n) /\ et.root # NIL =>
            /\ RebuildChosen(et, EtInsertBeforeRebuild(et, n))
            /\ et'.fault = "none" =>
                 et' = RebuiltOnce(EtInsertBeforeRebuild(et, n))
       /\ IsEtRemoveOf(n) =>
            /\ RebuildChosen(et, EtRemoveBeforeRebuild(et, n))
            /\ et'.fault = "none" =>
                 et' = RebuiltOnce(EtRemoveBeforeRebuild(et, n))]_vars

\* the positions inside fixup_after_delete
InDeleteCall ==
  lastOp.op \in {"delete_loop", "delete_case4", "delete_folded", "delete_case6",
                 "delete_rotated"}

\* the nodes fixup_after_delete reads through at its position are there: the
\* sibling, the sibling's parent behind the unfolding rotation, the
\* sibling's far child behind the last rotation
DeleteReadsNodes ==
  /\ lastOp.op = "delete_loop" =>
       sibling_of(Tree, lastOp.parent, lastOp.deleted_left) # NIL
  /\ lastOp.op \in {"delete_case4", "delete_folded", "delete_case6", "delete_rotated"} =>
       lastOp.sibling # NIL
  /\ lastOp.op = "delete_folded" => parent[lastOp.sibling] # NIL
  /\ lastOp.op = "delete_rotated" =>
       (IF lastOp.deleted_left THEN right[lastOp.sibling] ELSE left[lastOp.sibling]) # NIL

\* C36: Red-Black remove is bounded: fixup_after_delete terminates on every
\* reachable tree, its propagate loop (Case 3) moves strictly upward and
\* stops at the root at the latest, the sibling it dereferences is never
\* null, and a single remove performs at most three rotations in total.
RemoveIsBounded ==
  /\ [](InDeleteCall => DeleteReadsNodes)
  /\ [](InDeleteCall => lastOp.rotations <= 3)
  /\ [][/\ lastOp.op = "delete_loop"
        /\ delete_propagates(Tree, lastOp.parent,
                             sibling_of(Tree, lastOp.parent, lastOp.deleted_left))
        => /\ SameShape(TreeNext, Tree)
           /\ IF parent[lastOp.parent] = NIL
                THEN lastOp.parent = root /\ lastOp'.op = "remove"
                ELSE /\ lastOp'.op = "delete_loop"
                     /\ lastOp'.parent = parent[lastOp.parent]
                     /\ lastOp'.deleted_left = (left[lastOp'.parent] = lastOp.parent)
                     /\ lastOp'.loops = lastOp.loops + 1
                     /\ lastOp'.rotations = lastOp.rotations]_vars
  /\ [][/\ lastOp.op = "delete_loop"
        /\ ~delete_propagates(Tree, lastOp.parent,
                              sibling_of(Tree, lastOp.parent, lastOp.deleted_left))
        => lastOp'.op = "delete_case4"]_vars
  /\ []<>(~InDeleteCall)

\* the third rotation of a remove is done: the RED sibling went up, the new
\* sibling was unfolded, the parent was rotated; the tree has a node above
\* the three that turned
RemoveIsBoundedWitness ==
  /\ ~extended
  /\ lastOp.op = "delete_rotated"
  /\ lastOp.rotations = 3
  /\ parent[parent[lastOp.parent]] # NIL

\* this step is a rotation inside an insert or a remove, hook included
IsRotationInCall ==
  /\ InCall \/ InDeleteCall
  /\ lastOp'.rotations = lastOp.rotations + 1

====
